---------------------------- MODULE Spec2Model ----------------------------
(***************************************************************************)
(* A model of menu/menu_explore.c: the explore view's facet index (the     *)
(* string normalizer, the index builder) and its query engine.             *)
(*                                                                         *)
(* C strings are sequences of byte codes without the terminating NUL; a    *)
(* position in a buffer is a 1-based index, and position Len+1 reads NUL.  *)
(* A uint32 is a pair <<hi, lo>> of 16-bit halves, so that the 32-bit      *)
(* arithmetic of the hash keeps its width.                                 *)
(***************************************************************************)
EXTENDS Integers, Sequences, FiniteSets, TLC

(***************************************************************************)
(* Bytes and C strings                                                     *)
(***************************************************************************)

\* The printable ASCII characters, in code order from 32 (space) to 126; the
\* few that a TLA+ string cannot hold are spelled out.
AsciiChars ==
  << " ", "!", "dquote", "#", "$", "%", "&", "'", "lparen", "rparen", "star", "+", ",", "-",
     ".", "/", "0", "1", "2", "3", "4", "5", "6", "7", "8", "9", ":", ";",
     "<", "=", ">", "?", "@", "A", "B", "C", "D", "E", "F", "G", "H", "I",
     "J", "K", "L", "M", "N", "O", "P", "Q", "R", "S", "T", "U", "V", "W",
     "X", "Y", "Z", "[", "backslash", "]", "^", "_", "backtick", "a", "b", "c", "d", "e",
     "f", "g", "h", "i", "j", "k", "l", "m", "n", "o", "p", "q", "r", "s",
     "t", "u", "v", "w", "x", "y", "z", "{", "|", "}", "~" >>

\* The byte codes of the first n of these characters.
RECURSIVE CodesUpTo(_)
CodesUpTo(n) ==
  IF n = 1 THEN (AsciiChars[1] :> 32)
  ELSE CodesUpTo(n - 1) @@ (AsciiChars[n] :> 31 + n)

AsciiCodes == CodesUpTo(Len(AsciiChars))

\* The byte code of a character literal.
Ord(c) == AsciiCodes[c]

\* A C string literal, written as a tuple of characters.
Str(cs) == [i \in 1..Len(cs) |-> Ord(cs[i])]

\* The byte a C string holds at position i; the terminator NUL at its end.
Ch(buf, i) == IF i >= 1 /\ i <= Len(buf) THEN buf[i] ELSE 0

\* buf[from .. to-1], the bytes between two pointers.
Slice(buf, from, to) == [i \in 1..(to - from) |-> buf[from + i - 1]]

\* The sequence F(k), ..., F(n) and the function c |-> F(c) on c..n, made
\* element by element.
RECURSIVE SeqFrom(_, _, _)
SeqFrom(F(_), k, n) ==
  IF k > n THEN << >> ELSE << F(k) >> \o SeqFrom(F, k + 1, n)

\* F of the value v, which is computed once.
With(v, F(_)) == F(v)

RECURSIVE FcnFrom(_, _, _)
FcnFrom(F(_), c, n) ==
  IF c = n THEN (c :> F(c)) ELSE (c :> F(c)) @@ FcnFrom(F, c + 1, n)

tolower(c) == IF c >= Ord("A") /\ c <= Ord("Z") THEN c + 32 ELSE c

LowerStr(s) == [i \in 1..Len(s) |-> tolower(s[i])]

\* strcasecmp: the sign of the first difference of the lower-cased bytes.
RECURSIVE CaseCmpFrom(_, _, _)
CaseCmpFrom(a, b, i) ==
  LET ca == tolower(Ch(a, i))
      cb == tolower(Ch(b, i))
  IN  IF ca # cb THEN ca - cb
      ELSE IF ca = 0 THEN 0
      ELSE CaseCmpFrom(a, b, i + 1)

strcasecmp(a, b) == CaseCmpFrom(a, b, 1)

\* strcasestr: whether needle occurs in hay, comparing lower-cased bytes.
strcasestr(hay, needle) ==
  \E k \in 0..(Len(hay) - Len(needle)) :
     \A i \in 1..Len(needle) : tolower(hay[k + i]) = tolower(needle[i])

(***************************************************************************)
(* 32-bit hashing                                                          *)
(***************************************************************************)

RECURSIVE Xor(_, _)
Xor(a, b) ==
  IF a = 0 THEN b
  ELSE IF b = 0 THEN a
  ELSE (((a % 2) + (b % 2)) % 2) + (2 * Xor(a \div 2, b \div 2))

\* (hash * 0x01000193) ^ c, modulo 2^32, on the halves <<hi, lo>>.
\* 0x01000193 = 2^24 + 403.
FnvStep(h, c) ==
  LET m  == h[2] * 403
      lo == m % 65536
      hi == ((h[1] * 403) + (m \div 65536) + ((h[2] % 256) * 256)) % 65536
  IN  << hi, ((lo \div 256) * 256) + Xor(lo % 256, c) >>

\* 0x811c9dc5
FnvBasis == << 33052, 40389 >>

NonZeroHash(h) == IF h = << 0, 0 >> THEN << 0, 1 >> ELSE h

RECURSIVE Hash32From(_, _, _)
Hash32From(s, i, h) ==
  IF i > Len(s) THEN h ELSE Hash32From(s, i + 1, FnvStep(h, s[i]))

ex_hash32(s) == NonZeroHash(Hash32From(s, 1, FnvBasis))

RECURSIVE NocaseFilteredFrom(_, _, _, _, _)
NocaseFilteredFrom(s, i, f_first, f_last, h) ==
  IF i > Len(s) THEN h
  ELSE LET c == s[i]
       IN  NocaseFilteredFrom(s, i + 1, f_first, f_last,
             IF c >= f_first /\ c <= f_last THEN FnvStep(h, tolower(c)) ELSE h)

\* A mutant of the hash: the bytes are hashed without case folding.
RECURSIVE CaseSensitiveFilteredFrom(_, _, _, _, _)
CaseSensitiveFilteredFrom(s, i, f_first, f_last, h) ==
  IF i > Len(s) THEN h
  ELSE LET c == s[i]
       IN  CaseSensitiveFilteredFrom(s, i + 1, f_first, f_last,
             IF c >= f_first /\ c <= f_last THEN FnvStep(h, c) ELSE h)

ex_hash32_case_sensitive(s, f_first, f_last) ==
  NonZeroHash(CaseSensitiveFilteredFrom(s, 1, f_first, f_last, FnvBasis))

ex_hash32_nocase_filtered(s, f_first, f_last) ==
  NonZeroHash(NocaseFilteredFrom(s, 1, f_first, f_last, FnvBasis))

(***************************************************************************)
(* The open-addressing map.  Slot i of the C arrays is element i+1.        *)
(***************************************************************************)

U32Zero == << 0, 0 >>

\* A small number as a uint32.
U32(n) == << 0, n >>

\* ex_hashmap32 map = {0}
EmptyMap == [len |-> 0, cap |-> 0, keys |-> << >>, vals |-> << >>]

\* key & (cap - 1), for a power-of-two cap of at most 2^16
MaskIndex(key, cap) == key[2] % cap

\* The slot a probe for key ends at, starting from slot i: the first slot
\* that is empty or holds key.
RECURSIVE ProbeSlot(_, _, _, _)
ProbeSlot(keys, cap, key, i) ==
  IF keys[i + 1] = U32Zero \/ keys[i + 1] = key THEN i
  ELSE ProbeSlot(keys, cap, key, (i + 1) % cap)

\* A mutant: a key that is not in its own slot of the old arrays is left
\* behind.
RehashFrom_own_slots(old, i, new) ==
  [new EXCEPT
     !.keys = [j \in 1..new.cap |->
                 IF j <= old.cap /\ old.keys[j] # U32Zero
                                /\ MaskIndex(old.keys[j], old.cap) = j - 1
                 THEN old.keys[j] ELSE U32Zero],
     !.vals = [j \in 1..new.cap |-> IF j <= old.cap THEN old.vals[j] ELSE 0]]

\* The rehash loop of ex_hashmap32__grow, from old slot i on.
RECURSIVE RehashFrom(_, _, _)
RehashFrom(old, i, new) ==
  IF i >= old.cap THEN new
  ELSE IF old.keys[i + 1] = U32Zero THEN RehashFrom(old, i + 1, new)
  ELSE LET key == old.keys[i + 1]
           j   == ProbeSlot(new.keys, new.cap, U32Zero, MaskIndex(key, new.cap))
       IN  RehashFrom(old, i + 1,
             [new EXCEPT !.keys[j + 1] = key, !.vals[j + 1] = old.vals[i + 1]])

ex_hashmap32__grow(map, new_cap) ==
  LET cap == IF new_cap < 16 THEN 16 ELSE new_cap
  IN  RehashFrom(map, 0,
        [len |-> map.len, cap |-> cap,
         keys |-> [i \in 1..cap |-> U32Zero],
         vals |-> [i \in 1..cap |-> 0]])

ex_hashmap32_getnum(map, key) ==
  IF map.len = 0 \/ key = U32Zero THEN 0
  ELSE LET i == ProbeSlot(map.keys, map.cap, key, MaskIndex(key, map.cap))
       IN  IF map.keys[i + 1] = key THEN map.vals[i + 1] ELSE 0

ex_hashmap32_setnum(map, key, val) ==
  IF key = U32Zero THEN map
  ELSE LET m == IF 2 * map.len >= map.cap
                THEN ex_hashmap32__grow(map, 2 * map.cap) ELSE map
           i == ProbeSlot(m.keys, m.cap, key, MaskIndex(key, m.cap))
       IN  IF m.keys[i + 1] = U32Zero
           THEN [m EXCEPT !.len = m.len + 1, !.keys[i + 1] = key, !.vals[i + 1] = val]
           ELSE [m EXCEPT !.vals[i + 1] = val]

ex_hashmap32_strgetnum(map, s) == ex_hashmap32_getnum(map, ex_hash32(s))

ex_hashmap32_strsetnum(map, s, num) == ex_hashmap32_setnum(map, ex_hash32(s), num)

(***************************************************************************)
(* The categories                                                          *)
(***************************************************************************)

EXPLORE_BY_DEVELOPER   == 0
EXPLORE_BY_PUBLISHER   == 1
EXPLORE_BY_RELEASEYEAR == 2
EXPLORE_BY_PLAYERCOUNT == 3
EXPLORE_BY_GENRE       == 4
EXPLORE_BY_ORIGIN      == 5
EXPLORE_BY_REGION      == 6
EXPLORE_BY_FRANCHISE   == 7
EXPLORE_BY_TAGS        == 8
EXPLORE_BY_SYSTEM      == 9
EXPLORE_CAT_COUNT      == 10

Cats == 0..(EXPLORE_CAT_COUNT - 1)

\* The array that holds F(cat) for each category.
ForCats(F(_)) == FcnFrom(F, 0, EXPLORE_CAT_COUNT - 1)

explore_by_info ==
  [cat \in Cats |->
     [name       |-> << "Developer", "Publisher", "Release Year", "Player Count",
                        "Genre", "Origin", "Region", "Franchise", "Tags",
                        "System" >>[cat + 1],
      rdbkey     |-> << "developer", "publisher", "releaseyear", "users",
                        "genre", "origin", "region", "franchise", "tags",
                        "system" >>[cat + 1],
      use_split  |-> cat \in {EXPLORE_BY_DEVELOPER, EXPLORE_BY_PUBLISHER,
                               EXPLORE_BY_GENRE, EXPLORE_BY_TAGS},
      is_company |-> cat \in {EXPLORE_BY_DEVELOPER, EXPLORE_BY_PUBLISHER},
      is_numeric |-> cat \in {EXPLORE_BY_RELEASEYEAR, EXPLORE_BY_PLAYERCOUNT}]]

(***************************************************************************)
(* Sorting                                                                 *)
(***************************************************************************)

\* explore_qsort_func_strings, _entries and _menulist compare two strings
\* (a value's str, an entry's label, an item's path) in the same way.
explore_qsort_func_strings(a, b) ==
  IF Ch(a, 1) # Ch(b, 1) THEN Ch(a, 1) - Ch(b, 1) ELSE strcasecmp(a, b)

\* qsort: the orders of the positions S of keys that the comparison function
\* allows.  Elements that compare equal may come out in any order.
RECURSIVE SortedOrders(_, _)
SortedOrders(keys, S) ==
  IF S = {} THEN { << >> }
  ELSE UNION { { << m >> \o t : t \in SortedOrders(keys, S \ {m}) } :
               m \in { x \in S : \A y \in S :
                         explore_qsort_func_strings(keys[x], keys[y]) <= 0 } }

qsort(keys) == SortedOrders(keys, 1..Len(keys))

(***************************************************************************)
(* The string normalizer, explore_add_unique_string                        *)
(*                                                                         *)
(* It works on one category: ns is that category's part of the index and   *)
(* of the entry being filled,                                              *)
(*   arena        the values allocated so far; a pointer to a value is its *)
(*                position here, and 0 is NULL                             *)
(*   by           explore_state->by[cat], a buffer of pointers             *)
(*   map          maps[cat]                                                *)
(*   has_unknown  explore_state->has_unknown[cat]                          *)
(*   e_by         e->by[cat]                                               *)
(*   split_buf    *split_buf, a buffer of <<cat, pointer>>                 *)
(*   fault        "none", or the memory error the call ran into            *)
(***************************************************************************)

Delimiters == { Ord("/"), Ord(","), Ord("|") }

\* A pointer that is NULL reads as an empty field; <<0>> is no C string.
NullStr == << 0 >>

\* idx of a value that was allocated and not assigned yet
Uninit == "uninit"

\* The byte at position i, which may lie before the buffer: the pre bytes
\* right before the buffer happen to be spaces, the one before them is not.
ChBefore(buf, i, pre) ==
  IF i >= 1 THEN Ch(buf, i) ELSE IF 1 - i <= pre THEN Ord(" ") ELSE 1

\* while (*str == ' ') str++;
RECURSIVE SkipSpaces(_, _)
SkipSpaces(buf, i) ==
  IF Ch(buf, i) = Ord(" ") THEN SkipSpaces(buf, i + 1) ELSE i

\* while (p[-1] == ' ') p--;
RECURSIVE TrimSpaces(_, _, _)
TrimSpaces(buf, p, pre) ==
  IF ChBefore(buf, p - 1, pre) = Ord(" ") THEN TrimSpaces(buf, p - 1, pre) ELSE p

SuffixAt(buf, q) ==
  LET is(a, b, c) == /\ tolower(Ch(buf, q)) = Ord(a)
                     /\ tolower(Ch(buf, q + 1)) = Ord(b)
                     /\ tolower(Ch(buf, q + 2)) = Ord(c)
      n == IF Ch(buf, q + 3) = Ord(".") THEN 4 ELSE 3
  IN  IF is("i", "n", "c") THEN n
      ELSE IF is("l", "t", "d") THEN n
      ELSE IF is("t", "h", "e") THEN n
      ELSE 0

\* A mutant: no suffix token is recognized.
explore_check_company_suffix_none(buf, p, search_reverse) == 0

explore_check_company_suffix(buf, p, search_reverse) ==
  IF search_reverse
  THEN LET q == p - (IF Ch(buf, p - 1) = Ord(".") THEN 4 ELSE 3)
       IN  IF Ch(buf, q - 1) # Ord(" ") THEN 0 ELSE SuffixAt(buf, q)
  ELSE SuffixAt(buf, p)

\* A mutant: every value becomes the entry's primary value, also when the
\* entry has one.
InternSegment_overwrite(ns, cat, buf, str, p, split_null) ==
  LET seg   == Slice(buf, str, p)
      hash  == ex_hash32_nocase_filtered(seg, Ord("0"), 255)
      found == ex_hashmap32_getnum(ns.map, hash)
      entry == IF found # 0 THEN found ELSE Len(ns.arena) + 1
      ns1   == IF found # 0 THEN ns
               ELSE [ns EXCEPT
                       !.arena = Append(@, [str |-> seg, idx |-> Uninit]),
                       !.by    = Append(@, entry),
                       !.map   = ex_hashmap32_setnum(@, hash, entry)]
  IN  [ns1 EXCEPT !.e_by = entry]

\* Lines 429-449: intern the segment buf[str .. p-1] and give it to the entry.
InternSegment(ns, cat, buf, str, p, split_null) ==
  LET seg   == Slice(buf, str, p)
      hash  == ex_hash32_nocase_filtered(seg, Ord("0"), 255)
      found == ex_hashmap32_getnum(ns.map, hash)
      entry == IF found # 0 THEN found ELSE Len(ns.arena) + 1
      ns1   == IF found # 0 THEN ns
               ELSE [ns EXCEPT
                       !.arena = Append(@, [str |-> seg, idx |-> Uninit]),
                       !.by    = Append(@, entry),
                       !.map   = ex_hashmap32_setnum(@, hash, entry)]
  IN  IF ns1.e_by = 0 THEN [ns1 EXCEPT !.e_by = entry]
      ELSE IF split_null THEN [ns1 EXCEPT !.fault = "null_split_buf"]
      ELSE [ns1 EXCEPT !.split_buf = Append(@, << cat, entry >>)]

\* A mutant: a comma is a delimiter like the others.
NextDelimiter_plain(cat, buf, p_next) == p_next

\* Lines 453-465: where the scan resumes after a segment that p_next ended.
NextDelimiter(cat, buf, p_next) ==
  IF explore_by_info[cat].is_company /\ Ch(buf, p_next) = Ord(",")
  THEN LET p1 == SkipSpaces(buf, p_next + 1)
           p2 == SkipSpaces(buf, p1 + explore_check_company_suffix(buf, p1, FALSE))
       IN  IF Ch(buf, p2) = 0 THEN 0
           ELSE IF Ch(buf, p2) \in Delimiters THEN p2
           ELSE p_next
  ELSE p_next

\* The for loop of lines 397-468, entered with the pointers str and p.
RECURSIVE ScanFrom(_, _, _, _, _, _, _)
ScanFrom(ns, cat, buf, split_null, pre, str, p) ==
  LET c == Ch(buf, p)
      splitting == explore_by_info[cat].use_split /\ ~split_null
  IN  IF c \notin Delimiters /\ c # 0
      THEN ScanFrom(ns, cat, buf, split_null, pre, str, p + 1)
      ELSE IF ~splitting /\ c # 0
      THEN ScanFrom(ns, cat, buf, split_null, pre, str, p + 1)
      ELSE
        LET p_next == p
            str1   == SkipSpaces(buf, str)
            p1     == TrimSpaces(buf, p, pre)
        IN  IF p1 = str1
            THEN IF Ch(buf, p1) = 0 THEN ns
                 ELSE ScanFrom(ns, cat, buf, split_null, pre, str1, p1 + 1)
            ELSE IF p1 < str1
            \* len = p - str is negative: as a size_t it is out of range, and
            \* the hash reads that many bytes from str on.
            THEN [ns EXCEPT !.fault = "negative_len"]
            ELSE
              LET p2 == IF explore_by_info[cat].is_company /\ p1 - str1 > 5
                        THEN TrimSpaces(buf,
                               p1 - explore_check_company_suffix(buf, p1, TRUE), pre)
                        ELSE p1
                  ns1 == InternSegment(ns, cat, buf, str1, p2, ~splitting)
                  nxt == NextDelimiter(cat, buf, p_next)
              IN  IF ns1.fault # "none" THEN ns1
                  ELSE IF Ch(buf, p_next) = 0 \/ nxt = 0 THEN ns1
                  ELSE ScanFrom(ns1, cat, buf, split_null, pre, nxt + 1, nxt + 1)

explore_add_unique_string(ns, cat, str, split_null, pre) ==
  IF str = NullStr \/ Len(str) = 0
  THEN [ns EXCEPT !.has_unknown = TRUE]
  ELSE ScanFrom(ns, cat, str, split_null, pre, 1, 2)

\* What a build starts a category from.
EmptyCat ==
  [arena |-> << >>, by |-> << >>, map |-> EmptyMap, has_unknown |-> FALSE,
   e_by |-> 0, split_buf |-> << >>, fault |-> "none"]

(***************************************************************************)
(* The normalizer on its own: the fields of successive records of one      *)
(* category are normalized one after the other, as the build does, and the *)
(* category's array is sorted at the end.                                  *)
(***************************************************************************)

VARIABLES
  n_cat,      \* the category
  n_todo,     \* the fields of the records still to come
  n_hist,     \* the fields normalized so far
  n_pre,      \* how many bytes right before a field's buffer are spaces
  n_before,   \* the category before the last call
  n_ns,       \* the category now
  n_sorted    \* whether the category's array has been sorted

FieldAtariInc == Str(<< "A", "t", "a", "r", "i", ",", " ", "I", "n", "c" >>)

FieldAtari == Str(<< "A", "t", "a", "r", "i" >>)

FieldNintendoCoLtd == Str(<< "N", "i", "n", "t", "e", "n", "d", "o", " ", "C", "o", ".", ",", " ", "L", "t", "d", "." >>)

FieldNintendo == Str(<< "N", "i", "n", "t", "e", "n", "d", "o" >>)

FieldNintendoUpper == Str(<< "N", "I", "N", "T", "E", "N", "D", "O" >>)

FieldNintendoLtd == Str(<< "N", "i", "n", "t", "e", "n", "d", "o", ",", " ", "L", "t", "d", "." >>)

FieldActionAdventure == Str(<< "A", "c", "t", "i", "o", "n", "/", "A", "d", "v", "e", "n", "t", "u", "r", "e" >>)

FieldAction == Str(<< "A", "c", "t", "i", "o", "n" >>)

FieldAdventure == Str(<< "A", "d", "v", "e", "n", "t", "u", "r", "e" >>)

FieldSegaTheAtari == Str(<< "S", "e", "g", "a", ",", " ", "T", "h", "e", "|", "a", "t", "a", "r", "i" >>)

FieldSoftwareInc == Str(<< "S", "o", "f", "t", "w", "a", "r", "e", " ", "I", "n", "c", "." >>)

FieldIncLtd == Str(<< "X", ",", "i", "n", "c", ".", ",", "L", "T", "D" >>)

FieldApple == Str(<< "a", "p", "p", "l", "e" >>)

FieldBanana == Str(<< "B", "a", "n", "a", "n", "a" >>)

FieldNintendoCo == Str(<< "N", "i", "n", "t", "e", "n", "d", "o", " ", "C", "o", "." >>)

\* Fields of the form segment, comma, spaces, token, spaces, tail.
SuffixFields ==
  { seg \o Str(<< "," >>) \o sp1 \o tok \o sp2 \o tail :
      seg  \in { Str(<< "a" >>), Str(<< "S", "e", "g", "a", " ", "L", "t", "d" >>) },
      sp1  \in { << >>, Str(<< " " >>) },
      tok  \in { Str(<< "I", "n", "c" >>), Str(<< "i", "n", "c", "." >>), Str(<< "L", "T", "D" >>), Str(<< "T", "h", "e" >>), Str(<< "I", "n", "x" >>), Str(<< "I", "n", "c", "x" >>) },
      sp2  \in { << >>, Str(<< " " >>) },
      tail \in { << >>, Str(<< "/", "b" >>), Str(<< ",", "L", "t", "d" >>), Str(<< "x" >>) } }

Fixtures ==
  { FieldAtariInc,
    FieldAtari,
    FieldNintendoCoLtd,
    FieldNintendo,
    FieldNintendoUpper,
    FieldNintendoLtd,
    FieldActionAdventure,
    FieldAction,
    FieldAdventure,
    FieldSegaTheAtari,
    FieldSoftwareInc,
    FieldIncLtd,
    FieldApple,
    FieldBanana }

\* The longest field of the exhaustive inputs, and of those that come in pairs.
MaxFieldLen == 4
MaxPairLen  == 1

\* The most bytes before a field's buffer that are spaces.
MaxPre == 1

FieldAlphabet == { Ord("a"), Ord("A"), Ord(" "), Ord(","), Ord("/") }
PairAlphabet  == { Ord("a"), Ord("A"), Ord("B") }

Strings(alphabet, n) == UNION { [1..k -> alphabet] : k \in 0..n }

AllFields  ==
  Strings(FieldAlphabet, MaxFieldLen) \cup Fixtures \cup SuffixFields \cup { NullStr }
PairFields == Strings(PairAlphabet, MaxPairLen) \cup Fixtures

NormInputs ==
  { << f >> : f \in AllFields } \cup { << f, g >> : f, g \in PairFields }

\* One category of each kind: organization names, other multiple values,
\* single values.
NormCats == { EXPLORE_BY_DEVELOPER, EXPLORE_BY_GENRE, EXPLORE_BY_ORIGIN }

(***************************************************************************)
(* The state of the program                                                *)
(***************************************************************************)

VARIABLES
  world,            \* the playlists, the databases and the core list on disk
  explore_state,    \* the static explore_state: "NULL" or the index
  menu_stack,       \* the entries of the menu stack, the root first
  list,             \* the items of the file list on display
  input_dialog,     \* whether the search text dialog is open
  playlist_cached,  \* the playlist cache: a playlist, or 0 for NULL
  playlists_freed,  \* the playlists that were freed
  menu,             \* the fields of the menu handle the content page sets
  builds,           \* how many times explore_build_list ran
  fault             \* "none", or the memory error the program ran into

\* explore_build_list taken step by step.
VARIABLES
  b_pc,         \* where the build is: the loop it is in (at), the file d of
                \* the playlist directory and the entry j of its playlist,
                \* the database i and its item k
  b_scan,       \* rdbs, rdb_indices, used_entries and explore_state->playlists
  b_map_cores,  \* map_cores
  b_idx,        \* cat_maps, explore_state->by, has_unknown and entries
  b_garbage,    \* what the reads of a value as one of another type come upon
  b_pre         \* how many bytes right before a field's buffer are spaces

\* A map on its own.
VARIABLES
  m_map,        \* the map
  m_last        \* for each key, the values set for it: none, or that of
                \* the last call

mainVars ==
  << world, explore_state, menu_stack, list, input_dialog, playlist_cached,
     playlists_freed, menu, builds, fault >>
normVars == << n_cat, n_todo, n_hist, n_pre, n_before, n_ns, n_sorted >>
buildVars == << b_pc, b_scan, b_map_cores, b_idx, b_garbage, b_pre >>
mapVars  == << m_map, m_last >>
vars     == << mainVars, normVars, buildVars, mapVars >>

\* The build has not begun.
BuildIdle ==
  /\ b_pc = [at |-> "idle", d |-> 0, j |-> 0, i |-> 0, k |-> 0]
  /\ b_scan = << >>
  /\ b_map_cores = << >>
  /\ b_idx = << >>
  /\ b_garbage = 0
  /\ b_pre = 0

\* No map is worked on.
MapIdle == m_map = EmptyMap /\ m_last = << >>

\* The strings of a buffer of pointers into a category.
StrsOf(ns, ptrs) == SeqFrom(LAMBDA k : ns.arena[ptrs[k]].str, 1, Len(ptrs))

\* A mutant: the values are numbered with their positions in the array
\* before it is sorted.
SortCategory_numbered_first(ns, order) ==
  LET by == SeqFrom(LAMBDA k : ns.by[order[k]], 1, Len(order))
  IN  [ns EXCEPT
         !.by    = by,
         !.arena = SeqFrom(LAMBDA ptr :
                             [ns.arena[ptr] EXCEPT
                                !.idx = (CHOOSE k \in 1..Len(ns.by) : ns.by[k] = ptr) - 1],
                           1, Len(ns.arena))]

\* Lines 754-760: sort the category's array and number its values; order is
\* the order qsort leaves the array in.
SortCategory(ns, order) ==
  LET by == SeqFrom(LAMBDA k : ns.by[order[k]], 1, Len(order))
  IN  [ns EXCEPT
         !.by    = by,
         !.arena = SeqFrom(LAMBDA ptr :
                             [ns.arena[ptr] EXCEPT
                                !.idx = (CHOOSE k \in 1..Len(by) : by[k] = ptr) - 1],
                           1, Len(ns.arena))]

NormInit ==
  /\ n_cat \in NormCats
  /\ n_todo \in NormInputs
  /\ n_pre \in 0..MaxPre
  /\ n_hist = << >>
  /\ n_before = EmptyCat
  /\ n_ns = EmptyCat
  /\ n_sorted = FALSE
  /\ world = << >>
  /\ explore_state = "NULL"
  /\ menu_stack = << >>
  /\ list = << >>
  /\ input_dialog = "closed"
  /\ playlist_cached = 0
  /\ playlists_freed = {}
  /\ menu = << >>
  /\ builds = 0
  /\ fault = "none"
  /\ BuildIdle
  /\ MapIdle

\* One record: the build clears e and the scratch buffer, and normalizes
\* the record's field of the category.
NormRecord ==
  /\ n_todo # << >>
  /\ n_ns.fault = "none"
  /\ LET start == [n_ns EXCEPT !.e_by = 0, !.split_buf = << >>]
     IN  /\ n_before' = start
         /\ n_ns' = explore_add_unique_string(start, n_cat, Head(n_todo), FALSE, n_pre)
  /\ n_hist' = Append(n_hist, Head(n_todo))
  /\ n_todo' = Tail(n_todo)
  /\ UNCHANGED << n_cat, n_pre, n_sorted, mainVars, buildVars, mapVars >>

\* The end of the build: the category's array is sorted and numbered.
NormSort ==
  /\ n_todo = << >>
  /\ n_ns.fault = "none"
  /\ ~n_sorted
  /\ \E order \in qsort(StrsOf(n_ns, n_ns.by)) :
        n_ns' = SortCategory(n_ns, order)
  /\ n_sorted' = TRUE
  /\ UNCHANGED << n_cat, n_todo, n_hist, n_pre, n_before, mainVars, buildVars, mapVars >>

NormNext == NormRecord \/ NormSort

SpecNorm == NormInit /\ [][NormNext]_vars

(***************************************************************************)
(* The filter test of the query, lines 1074-1090: whether an entry whose   *)
(* primary value of category cat is by_cat, and whose secondary values are *)
(* split (empty for NULL), passes the filter (0 for "unknown").            *)
(***************************************************************************)

\* A mutant: the secondary values are not looked at.
SatisfiesFilter_primary_only(by_cat, split, cat, filter, use_split) ==
  filter = by_cat

SatisfiesFilter(by_cat, split, cat, filter, use_split) ==
  \/ filter = by_cat
  \/ /\ use_split
     /\ split # << >>
     /\ \E k \in 1..Len(split) : split[k] = << cat, filter >>

(***************************************************************************)
(* The menu types                                                          *)
(***************************************************************************)

\* FILE_TYPE_RDB, MENU_EXPLORE_TAB and MENU_SETTINGS_LAST come from the menu
\* headers.  The code relies on their being distinct and on the first two
\* lying below MENU_SETTINGS_LAST; the numbers here keep that order.
FILE_TYPE_RDB      == 1
MENU_EXPLORE_TAB   == 2
MENU_SETTINGS_LAST == 3

EXPLORE_TYPE_ADDITIONALFILTER == FILE_TYPE_RDB
EXPLORE_TYPE_FILTERNULL       == MENU_SETTINGS_LAST
EXPLORE_TYPE_SEARCH           == EXPLORE_TYPE_FILTERNULL + 1
EXPLORE_TYPE_SHOWALL          == EXPLORE_TYPE_SEARCH + 1
EXPLORE_TYPE_FIRSTCATEGORY    == EXPLORE_TYPE_SHOWALL + 1
EXPLORE_TYPE_FIRSTITEM        == EXPLORE_TYPE_FIRSTCATEGORY + EXPLORE_CAT_COUNT

\* type - EXPLORE_TYPE_FIRSTCATEGORY < EXPLORE_CAT_COUNT in unsigned
\* arithmetic: a type below the first category wraps around to a large number.
IsCategoryType(type) ==
  type >= EXPLORE_TYPE_FIRSTCATEGORY /\ type < EXPLORE_TYPE_FIRSTITEM

(***************************************************************************)
(* What the build reads: the playlist directory, the databases and the     *)
(* core list.                                                              *)
(*   a playlist file   [fname, entries], an entry being                    *)
(*                     [crc32, db_name, label, core_name, path]            *)
(*   a database file   [path, items]; an item and the keys and values of a *)
(*                     map item are rmsgpack_dom_value's, [type, val]      *)
(*   the core list     "NULL", or a sequence of                            *)
(*                     [display_name, systemname]                          *)
(* A string that is a NULL pointer is NullStr.                             *)
(***************************************************************************)

RdtString(s) == [type |-> "RDT_STRING", val |-> s]
RdtInt(n)    == [type |-> "RDT_INT",    val |-> n]
RdtBinary(b) == [type |-> "RDT_BINARY", val |-> b]
RdtMap(kvs)  == [type |-> "RDT_MAP",    val |-> kvs]

\* The item of a map under a key that is a string.
Field(key, value) == [key |-> RdtString(key), value |-> value]

IsNull(s) == s = NullStr

\* !s || !*s
string_is_empty(s) == IsNull(s) \/ Len(s) = 0

\* strrchr(s, c): the last position of c in s, 0 for NULL.
strrchr(s, c) ==
  IF \E i \in 1..Len(s) : s[i] = c
  THEN CHOOSE i \in 1..Len(s) : s[i] = c /\ \A j \in (i + 1)..Len(s) : s[j] # c
  ELSE 0

\* fill_pathname_join_noext and strlcat: the database file of a database
\* name, relative to the database directory.  The extension is what follows
\* the last period of the base name.
RdbPath(db_name) ==
  LET dot   == strrchr(db_name, Ord("."))
      slash == strrchr(db_name, Ord("/"))
      stem  == IF dot > slash THEN SubSeq(db_name, 1, dot - 1) ELSE db_name
  IN  stem \o Str(<< ".", "r", "d", "b" >>)

\* libretrodb_open succeeds on a database file that exists and is valid.
CanOpen(w, path) == \E f \in w.databases : f.path = path

RdbItems(w, path) == (CHOOSE f \in w.databases : f.path = path).items

\* The value of a hexadecimal digit, -1 for another byte.
HexDigit(c) ==
  IF c >= Ord("0") /\ c <= Ord("9") THEN c - Ord("0")
  ELSE IF c >= Ord("a") /\ c <= Ord("f") THEN c - Ord("a") + 10
  ELSE IF c >= Ord("A") /\ c <= Ord("F") THEN c - Ord("A") + 10
  ELSE -1

\* The digits of strtoul from position i on, added to the uint32 acc; n counts
\* the digits after the first non-zero one, and past 16 of them the 64-bit
\* result saturates.
RECURSIVE HexFrom(_, _, _, _)
HexFrom(s, i, acc, n) ==
  LET d == HexDigit(Ch(s, i))
  IN  IF d < 0 THEN (IF n > 16 THEN << 65535, 65535 >> ELSE acc)
      ELSE HexFrom(s, i + 1,
             << (acc[1] * 16 + (acc[2] * 16) \div 65536) % 65536,
                (acc[2] * 16 + d) % 65536 >>,
             IF n > 0 \/ d > 0 THEN n + 1 ELSE 0)

\* The first position from i on that holds no white space.
RECURSIVE SkipWhite(_, _)
SkipWhite(s, i) ==
  IF Ch(s, i) \in {32, 9, 10, 11, 12, 13} THEN SkipWhite(s, i + 1) ELSE i

\* -x as a uint32
U32Neg(x) ==
  IF x = U32Zero THEN x
  ELSE << (65535 - x[1] + (IF x[2] = 0 THEN 1 ELSE 0)) % 65536,
          (65536 - x[2]) % 65536 >>

\* (uint32_t)strtoul(s, NULL, 16): white space, a sign, 0x, the digits.
strtoul16(s) ==
  LET i0  == SkipWhite(s, 1)
      neg == Ch(s, i0) = Ord("-")
      i1  == IF Ch(s, i0) \in {Ord("+"), Ord("-")} THEN i0 + 1 ELSE i0
      i2  == IF /\ Ch(s, i1) = Ord("0")
                /\ Ch(s, i1 + 1) \in {Ord("x"), Ord("X")}
                /\ HexDigit(Ch(s, i1 + 2)) >= 0
             THEN i1 + 2 ELSE i1
      v   == HexFrom(s, i2, U32Zero, 0)
  IN  IF neg THEN U32Neg(v) ELSE v

\* A mutant: the four bytes are read in the order of a little-endian word.
Crc32Of_noswap(b) == << b[4] * 256 + b[3], b[2] * 256 + b[1] >>

\* swap_if_little32(*(uint32_t*)buff): the first four bytes, big-endian.
Crc32Of(b) == << b[1] * 256 + b[2], b[3] * 256 + b[4] >>

\* snprintf("%d", n)
RECURSIVE Digits(_)
Digits(n) ==
  IF n < 10 THEN << Ord("0") + n >>
  ELSE Append(Digits(n \div 10), Ord("0") + (n % 10))

FormatInt(n) == IF n < 0 THEN << Ord("-") >> \o Digits(-n) ELSE Digits(n)

\* A pointer to entry j of the playlist read from file d of the directory;
\* a playlist holds fewer than COLLECTION_SIZE entries.
EntryPtr(d, j) == d * 100000 + j
PlaylistOf(ptr) == ptr \div 100000
IndexOf(ptr)    == ptr % 100000
EntryAt(w, ptr) == w.playlist_dir[PlaylistOf(ptr)].entries[IndexOf(ptr)]

(***************************************************************************)
(* explore_build_list                                                      *)
(***************************************************************************)

\* A mutant: a database that cannot be opened is not marked, so that the
\* next entry that names it tries again.
IndexEntry_retry(w, scan, d, j) ==
  With(w.playlist_dir[d].entries[j], LAMBDA entry :
    IF \/ string_is_empty(entry.crc32)
       \/ string_is_empty(entry.db_name)
       \/ string_is_empty(entry.label)
    THEN scan
    ELSE
  With(ex_hashmap32_strgetnum(scan.rdb_indices, entry.db_name), LAMBDA rdb_num :
  With(rdb_num = 0 /\ CanOpen(w, RdbPath(entry.db_name)), LAMBDA opened :
    IF rdb_num = 0 /\ ~opened
    THEN [scan EXCEPT
            !.opens = Append(@, [db_name |-> entry.db_name, ok |-> FALSE])]
    ELSE
  With(IF opened
       THEN Append(scan.rdbs, [path |-> RdbPath(entry.db_name),
                               playlist_entries |-> EmptyMap])
       ELSE scan.rdbs, LAMBDA rdbs :
  With(IF opened THEN Len(rdbs) ELSE rdb_num, LAMBDA num :
    [scan EXCEPT
       !.rdbs = [rdbs EXCEPT
                   ![num].playlist_entries =
                      ex_hashmap32_setnum(@, strtoul16(entry.crc32),
                                          EntryPtr(d, j))],
       !.rdb_indices = IF opened
                       THEN ex_hashmap32_strsetnum(@, entry.db_name, num)
                       ELSE @,
       !.opens = IF opened
                 THEN Append(@, [db_name |-> entry.db_name, ok |-> TRUE])
                 ELSE @,
       !.used_entries = @ + 1])))))

\* Lines 549-602: what entry j of the playlist of file d does to the scan,
\*   rdbs          the databases opened, each [path, playlist_entries]
\*   rdb_indices   the map from database names to positions in rdbs
\*   used_entries  the entries of this playlist that were registered
\*   opens         the calls of libretrodb_open so far, each [db_name, ok]
IndexEntry(w, scan, d, j) ==
  With(w.playlist_dir[d].entries[j], LAMBDA entry :
    IF \/ string_is_empty(entry.crc32)
       \/ string_is_empty(entry.db_name)
       \/ string_is_empty(entry.label)
    THEN scan
    ELSE
  With(ex_hashmap32_strgetnum(scan.rdb_indices, entry.db_name), LAMBDA rdb_num :
  With(rdb_num = 0 /\ CanOpen(w, RdbPath(entry.db_name)), LAMBDA opened :
    IF rdb_num = 0 /\ ~opened
    THEN [scan EXCEPT
            !.opens = Append(@, [db_name |-> entry.db_name, ok |-> FALSE]),
            !.rdb_indices = ex_hashmap32_strsetnum(@, entry.db_name, -1)]
    ELSE IF rdb_num = -1
    THEN scan
    ELSE
  With(IF opened
       THEN Append(scan.rdbs, [path |-> RdbPath(entry.db_name),
                               playlist_entries |-> EmptyMap])
       ELSE scan.rdbs, LAMBDA rdbs :
  With(IF opened THEN Len(rdbs) ELSE rdb_num, LAMBDA num :
    [scan EXCEPT
       !.rdbs = [rdbs EXCEPT
                   ![num].playlist_entries =
                      ex_hashmap32_setnum(@, strtoul16(entry.crc32),
                                          EntryPtr(d, j))],
       !.rdb_indices = IF opened
                       THEN ex_hashmap32_strsetnum(@, entry.db_name, num)
                       ELSE @,
       !.opens = IF opened
                 THEN Append(@, [db_name |-> entry.db_name, ok |-> TRUE])
                 ELSE @,
       !.used_entries = @ + 1])))))

\* The loop of lines 547-603 from entry j on.
RECURSIVE IndexEntriesFrom(_, _, _, _)
IndexEntriesFrom(w, scan, d, j) ==
  IF j > Len(w.playlist_dir[d].entries) THEN scan
  ELSE IndexEntriesFrom(w, IndexEntry(w, scan, d, j), d, j + 1)

\* Lines 535-540: whether the directory entry is a playlist file.
IsPlaylistFile(fname) ==
  LET fext == strrchr(fname, Ord("."))
  IN  /\ ~IsNull(fname)
      /\ fext # 0
      /\ strcasecmp(SubSeq(fname, fext, Len(fname)), Str(<< ".", "l", "p", "l" >>)) = 0

\* The loop of lines 513-609 from file d of the directory on; playlists is
\* explore_state->playlists, and dropped the playlists freed at line 608.
RECURSIVE IndexPlaylistsFrom(_, _, _)
IndexPlaylistsFrom(w, scan, d) ==
  IF d > Len(w.playlist_dir) THEN scan
  ELSE IF ~IsPlaylistFile(w.playlist_dir[d].fname)
  THEN IndexPlaylistsFrom(w, scan, d + 1)
  ELSE With(IndexEntriesFrom(w, [scan EXCEPT !.used_entries = 0], d, 1), LAMBDA s :
         IndexPlaylistsFrom(w,
           IF s.used_entries # 0
           THEN [s EXCEPT !.playlists = Append(@, d)]
           ELSE [s EXCEPT !.dropped = Append(@, d)],
           d + 1))

\* Lines 611-615: the map from the display names of the cores to the cores.
RECURSIVE MapCoresFrom(_, _, _)
MapCoresFrom(core_list, i, map) ==
  IF i > Len(core_list) THEN map
  ELSE MapCoresFrom(core_list, i + 1,
         ex_hashmap32_strsetnum(map, core_list[i].display_name, i))

MapCores(w) ==
  IF w.core_list = "NULL" THEN EmptyMap ELSE MapCoresFrom(w.core_list, 1, EmptyMap)

\* (int)val->val.int_ of a value: the integer of an integer value; for a
\* value of another type the bytes of another member of the union, garbage.
IntOf(value, garbage) ==
  IF value.type \in {"RDT_INT", "RDT_UINT"} THEN value.val ELSE garbage.int

\* The C string at val.string.buff of a value of another type: the pointer
\* is made of the bytes of another member of the union, and what is read
\* through it is garbage, a string that is empty or of one byte.
GarbageStr(garbage) ==
  IF garbage.int = 0 THEN << >> ELSE << garbage.int % 256 >>

\* Lines 650-689: what item k of the record's map does to the fields read.
ReadField(rec, kv, garbage) ==
  LET key == kv.key
      val == kv.value
      cat == CHOOSE c \in Cats : explore_by_info[c].rdbkey = key.val
  IN  IF key.type # "RDT_STRING" THEN rec
      ELSE IF key.val = "crc"
      THEN IF val.type = "RDT_BINARY" /\ Len(val.val) >= 4
           THEN [rec EXCEPT !.crc32 = Crc32Of(val.val), !.found_crc32 = TRUE]
           \* val.binary.buff is read whatever the type: the four bytes are
           \* garbage, or the read is one of memory that is not mapped
           ELSE IF garbage.readable
           THEN [rec EXCEPT !.crc32 = U32(garbage.int), !.found_crc32 = TRUE]
           ELSE [rec EXCEPT !.fault = "crc_read"]
      ELSE IF key.val = "original_title"
      THEN IF val.type = "RDT_STRING"
           THEN [rec EXCEPT !.original_title = val.val]
           \* val.string.buff is kept whatever the type, and read at line 717
           ELSE IF garbage.readable
           THEN [rec EXCEPT !.original_title = GarbageStr(garbage)]
           ELSE [rec EXCEPT !.fault = "original_title_read"]
      ELSE IF \A c \in Cats : explore_by_info[c].rdbkey # key.val
      THEN rec
      ELSE IF explore_by_info[cat].is_numeric
      THEN IF IntOf(val, garbage) = 0 THEN rec
           ELSE [rec EXCEPT !.fields[cat] = FormatInt(IntOf(val, garbage))]
      ELSE IF val.type # "RDT_STRING" THEN rec
      ELSE [rec EXCEPT !.fields[cat] = val.val]

RECURSIVE ReadFieldsFrom(_, _, _, _)
ReadFieldsFrom(rec, kvs, k, garbage) ==
  IF k > Len(kvs) \/ rec.fault # "none" THEN rec
  ELSE ReadFieldsFrom(ReadField(rec, kvs[k], garbage), kvs, k + 1, garbage)

\* Lines 635-690: the fields of a map item.
ReadRecord(item, garbage) ==
  ReadFieldsFrom([fields         |-> [c \in Cats |-> NullStr],
                  found_crc32    |-> FALSE,
                  crc32          |-> U32Zero,
                  original_title |-> NullStr,
                  fault          |-> "none"],
                 item.val, 1, garbage)

\* The first fault among those of the categories, "none" without one.
FirstFault(cats) ==
  IF \A c \in Cats : cats[c].fault = "none" THEN "none"
  ELSE cats[CHOOSE c \in Cats :
              cats[c].fault # "none" /\ \A b \in 0..(c - 1) : cats[b].fault = "none"].fault

\* The secondary values of the categories, in the order of the calls.
RECURSIVE SplitBufFrom(_, _)
SplitBufFrom(cats, c) ==
  IF c = EXPLORE_CAT_COUNT THEN << >>
  ELSE cats[c].split_buf \o SplitBufFrom(cats, c + 1)

\* Lines 701-708: the record's fields are normalized, from category cat on;
\* e.by[cat] and the scratch buffer start out empty.
RECURSIVE AddStringsFrom(_, _, _, _)
AddStringsFrom(cats, fields, cat, pre) ==
  IF cat = EXPLORE_CAT_COUNT THEN cats
  ELSE With(explore_add_unique_string(
              [cats[cat] EXCEPT !.e_by = 0, !.split_buf = << >>],
              cat, fields[cat], FALSE, pre), LAMBDA ns :
         IF ns.fault # "none" THEN [cats EXCEPT ![cat] = ns]
         ELSE AddStringsFrom([cats EXCEPT ![cat] = ns], fields, cat + 1, pre))

\* Lines 709-715: the system name of the core the playlist entry names, NULL
\* without one.
CoreSystemName(w, map_cores, entry) ==
  With(IF string_is_empty(entry.core_name) THEN 0
       ELSE ex_hashmap32_strgetnum(map_cores, entry.core_name), LAMBDA core :
    IF core = 0 THEN NullStr ELSE w.core_list[core].systemname)

\* Lines 706-715: the fields of the record, then the system name of the
\* core, are normalized.
AddEntryStrings(cats, fields, systemname, pre) ==
  With(AddStringsFrom(cats, fields, 0, pre), LAMBDA cats1 :
    IF FirstFault(cats1) # "none" THEN cats1
    ELSE [cats1 EXCEPT
            ![EXPLORE_BY_SYSTEM] =
               explore_add_unique_string(@, EXPLORE_BY_SYSTEM, systemname,
                                         TRUE, pre)])

\* Lines 692-737: what a record of database rdb does to the index,
\*   cats     for each category what the normalizer works on
\*   entries  explore_state->entries; a split of << >> is NULL
AddRecord(w, idx, rdb, map_cores, item, garbage, pre) ==
  IF item.type # "RDT_MAP" THEN idx
  ELSE
  With(ReadRecord(item, garbage), LAMBDA rec :
    IF rec.fault # "none" THEN [idx EXCEPT !.fault = rec.fault]
    ELSE
  With(ex_hashmap32_getnum(rdb.playlist_entries, rec.crc32), LAMBDA ptr :
    IF ~rec.found_crc32 \/ ptr = 0 THEN idx
    ELSE
  With(CoreSystemName(w, map_cores, EntryAt(w, ptr)), LAMBDA systemname :
  With(AddEntryStrings(idx.cats, rec.fields, systemname, pre), LAMBDA cats2 :
  With(FirstFault(cats2), LAMBDA cat_fault :
    IF cat_fault # "none"
    THEN [idx EXCEPT !.cats = cats2, !.fault = cat_fault]
    ELSE [idx EXCEPT
            !.cats = cats2,
            !.entries = Append(@,
               [playlist_entry |-> ptr,
                by             |-> ForCats(LAMBDA c : cats2[c].e_by),
                split          |-> SplitBufFrom(cats2, 0),
                original_title |-> IF string_is_empty(rec.original_title)
                                   THEN NullStr ELSE rec.original_title,
                \* what the build read for the entry, kept for reference
                record         |-> [item |-> item,
                                    fields |-> rec.fields,
                                    systemname |-> systemname]])])))))

\* The loop of lines 629-738 over the items of one database.
RECURSIVE AddRecordsFrom(_, _, _, _, _, _, _, _)
AddRecordsFrom(w, idx, rdb, map_cores, items, k, garbage, pre) ==
  IF k > Len(items) \/ idx.fault # "none" THEN idx
  ELSE AddRecordsFrom(w,
         AddRecord(w, idx, rdb, map_cores, items[k], garbage, pre),
         rdb, map_cores, items, k + 1, garbage, pre)

\* The loop of lines 619-745 over the databases opened.
RECURSIVE AddDatabasesFrom(_, _, _, _, _, _, _)
AddDatabasesFrom(w, idx, rdbs, map_cores, i, garbage, pre) ==
  IF i > Len(rdbs) \/ idx.fault # "none" THEN idx
  ELSE AddDatabasesFrom(w,
         AddRecordsFrom(w, idx, rdbs[i], map_cores,
                        RdbItems(w, rdbs[i].path), 1, garbage, pre),
         rdbs, map_cores, i + 1, garbage, pre)

\* Lines 751-763 for one category.  No two values of a category compare
\* equal, so that qsort leaves them in one order only.
SortedCategory(ns) ==
  SortCategory(ns, CHOOSE order \in qsort(StrsOf(ns, ns.by)) : TRUE)

\* Lines 492-496: what the scan of the playlists starts from.
EmptyScan ==
  [rdbs |-> << >>, rdb_indices |-> EmptyMap, used_entries |-> 0,
   playlists |-> << >>, dropped |-> << >>, opens |-> << >>]

\* What the index starts from.
EmptyIndex ==
  [cats |-> ForCats(LAMBDA c : EmptyCat), entries |-> << >>, fault |-> "none"]

\* Lines 504-763: the index before its entries are sorted; garbage and pre
\* are what the reads of undefined bytes come upon.
BuildIndex(w, garbage, pre) ==
  With(IndexPlaylistsFrom(w,
         EmptyScan, 1), LAMBDA scan :
  With(AddDatabasesFrom(w, EmptyIndex,
         scan.rdbs, MapCores(w), 1, garbage, pre), LAMBDA idx :
    [cats      |-> IF idx.fault # "none" THEN idx.cats
                   ELSE ForCats(LAMBDA c : SortedCategory(idx.cats[c])),
     entries   |-> idx.entries,
     playlists |-> scan.playlists,
     fault     |-> idx.fault]))

\* The labels of entries, the keys of explore_qsort_func_entries.
LabelsOf(w, entries) ==
  SeqFrom(LAMBDA k : EntryAt(w, entries[k].playlist_entry).label, 1, Len(entries))

\* A playlist is known by the build that read it and by its file.
NoPlaylist == << 0, 0 >>

\* explore_state == NULL
ExploreNull == [null |-> TRUE]

\* Lines 506-510 and 764-766: the explore_state a build leaves, its entries
\* in the order qsort leaves them in.  A title is the sequence of the pieces
\* written to it.
BuiltState(w, b, order, build) ==
  [null        |-> FALSE,
   by          |-> ForCats(LAMBDA c : b.cats[c].by),
   values      |-> ForCats(LAMBDA c : b.cats[c].arena),
   has_unknown |-> ForCats(LAMBDA c : b.cats[c].has_unknown),
   entries     |-> SeqFrom(LAMBDA k : b.entries[order[k]], 1, Len(order)),
   playlists   |-> SeqFrom(LAMBDA k : << build, b.playlists[k] >>, 1, Len(b.playlists)),
   title       |-> << >>,
   find_string |-> << >>,
   top_depth   |-> 0,
   cached_playlist |-> NoPlaylist]

(***************************************************************************)
(* menu_displaylist_explore                                                *)
(*                                                                         *)
(* A string on display (the title, the path of an item) is the sequence of *)
(* the pieces it is formatted from: literal text and C strings.            *)
(***************************************************************************)

Lit(text) == << [text |-> text, arg |-> << >>] >>
Val(s)    == << [text |-> "", arg |-> s] >>

\* (unsigned)n formatted with %u, for n >= -1
FormatUnsigned(n) ==
  IF n = -1
  THEN Str(<< "4", "2", "9", "4", "9", "6", "7", "2", "9", "5" >>)
  ELSE FormatInt(n)

\* explore_menu_entry: the item appended to the list.
explore_menu_entry(path, type) ==
  [path |-> path, type |-> type, action_ok |-> "explore_action_ok",
   action_sublabel |-> "none"]

\* explore_menu_add_spacer
explore_menu_add_spacer(l) ==
  IF Len(l) = 0 THEN l
  ELSE [l EXCEPT ![Len(l)].action_sublabel = "explore_action_sublabel_spacer"]

\* stack_top[i].type
StackTop(es, stack, i) == stack[es.top_depth + i + 1].type

\* The positions i in from..depth-1 of the path that hold a category.
RECURSIVE LevelsFrom(_, _, _, _)
LevelsFrom(es, stack, depth, from) ==
  IF from >= depth THEN << >>
  ELSE (IF IsCategoryType(StackTop(es, stack, from)) THEN << from >> ELSE << >>)
         \o LevelsFrom(es, stack, depth, from + 1)

\* Lines 1051-1064 (and 894-907): the category at position i of the path and
\* the value selected in it; filter is 0 for NULL.
LevelAt(es, stack, i) ==
  LET by_category      == StackTop(es, stack, i) - EXPLORE_TYPE_FIRSTCATEGORY
      by_selected_type == StackTop(es, stack, i + 1)
      index            == by_selected_type - EXPLORE_TYPE_FIRSTITEM
      is_null          == by_selected_type = EXPLORE_TYPE_FILTERNULL
      in_range         == index >= 0 /\ index < Len(es.by[by_category])
  IN  [cat       |-> by_category,
       use_split |-> explore_by_info[by_category].use_split,
       in_range  |-> is_null \/ in_range,
       filter    |-> IF is_null \/ ~in_range THEN 0
                     ELSE es.by[by_category][index + 1]]

Levels(es, stack, depth) ==
  LET at == LevelsFrom(es, stack, depth, 1)
  IN  SeqFrom(LAMBDA l : LevelAt(es, stack, at[l]), 1, Len(at))

\* Lines 887-915: the title and the search text at a depth other than 0;
\* levels are the categories of the path and their values.
PathTitle(es, stack, depth, levels) ==
  LET clear_find_text ==
        /\ StackTop(es, stack, depth) # EXPLORE_TYPE_SEARCH
        /\ \A i \in 1..(depth - 1) : StackTop(es, stack, i) # EXPLORE_TYPE_SEARCH
      find_string == IF clear_find_text THEN << >> ELSE es.find_string
      RECURSIVE TitleFrom(_)
      TitleFrom(l) ==
        IF l > Len(levels) THEN << >>
        ELSE (IF l > 1 THEN Lit(" / ") ELSE << >>)
               \o Lit(explore_by_info[levels[l].cat].name) \o Lit(": ")
               \o (IF levels[l].filter = 0 THEN Lit("Unknown")
                   ELSE Val(es.values[levels[l].cat][levels[l].filter].str))
               \o TitleFrom(l + 1)
  IN  [es EXCEPT
         !.find_string = find_string,
         !.title = TitleFrom(1)
                     \o (IF find_string # << >>
                         THEN Lit(" '") \o Val(find_string) \o Lit("'")
                         ELSE << >>)]

\* Lines 939-979: the items of the explore top and of the additional filter.
CategoryItems(es, stack, depth, is_top) ==
  LET RECURSIVE ItemsFrom(_)
      ItemsFrom(cat) ==
        IF cat = EXPLORE_CAT_COUNT THEN << >>
        ELSE LET name    == explore_by_info[cat].name
                 entries == StrsOf([arena |-> es.values[cat]], es.by[cat])
                 tmp     == IF ~is_top THEN Lit("By ") \o Lit(name)
                            ELSE IF explore_by_info[cat].is_numeric
                            THEN Lit("By ") \o Lit(name) \o Lit(" (")
                                   \o Val(entries[1]) \o Lit(" - ")
                                   \o Val(entries[Len(entries)]) \o Lit(")")
                            ELSE Lit("By ") \o Lit(name) \o Lit(" (")
                                   \o Val(FormatUnsigned(Len(entries)))
                                   \o Lit(" entries)")
             IN  (IF \/ Len(es.by[cat]) = 0
                     \/ \E i \in 1..(depth - 1) :
                          StackTop(es, stack, i) = cat + EXPLORE_TYPE_FIRSTCATEGORY
                  THEN << >>
                  ELSE << explore_menu_entry(tmp, cat + EXPLORE_TYPE_FIRSTCATEGORY) >>)
                   \o ItemsFrom(cat + 1)
      search == IF is_top \/ es.find_string = << >>
                THEN explore_menu_add_spacer(
                       << [explore_menu_entry(Lit("Search Name ..."),
                                              EXPLORE_TYPE_SEARCH)
                             EXCEPT !.action_ok = "explore_action_ok_find"] >>)
                ELSE << >>
      cats   == search \o ItemsFrom(0)
  IN  IF is_top
      THEN explore_menu_add_spacer(cats)
             \o << explore_menu_entry(Lit("Show All"), EXPLORE_TYPE_SHOWALL) >>
      ELSE cats

\* Lines 987-998: all the values of a category.
ValueItems(es, current_cat) ==
  LET items == SeqFrom(LAMBDA i :
                  explore_menu_entry(
                    Val(es.values[current_cat][es.by[current_cat][i]].str),
                    EXPLORE_TYPE_FIRSTITEM + (i - 1)),
                  1, Len(es.by[current_cat]))
  IN  IF es.has_unknown[current_cat]
      THEN explore_menu_add_spacer(items)
             \o << explore_menu_entry(Lit("Unknown"), EXPLORE_TYPE_FILTERNULL) >>
      ELSE items

\* Lines 1074-1095: whether entry e passes the filters of the path and the
\* search text.
PassesFilters(w, es, levels, e) ==
  /\ \A lvl \in 1..Len(levels) :
        SatisfiesFilter(e.by[levels[lvl].cat], e.split, levels[lvl].cat,
                        levels[lvl].filter, levels[lvl].use_split)
  /\ es.find_string # << >> =>
       strcasestr(EntryAt(w, e.playlist_entry).label, es.find_string)

\* A mutant: an entry's value is listed whether or not it already is.
AddFilteredValue_again(view, es, current_cat, e) ==
  LET str == e.by[current_cat]
      idx == es.values[current_cat][str].idx
  IN  IF str = 0 THEN [view EXCEPT !.have_unknown = TRUE]
      ELSE [view EXCEPT
              !.list = Append(@, explore_menu_entry(
                                   Val(es.values[current_cat][str].str),
                                   EXPLORE_TYPE_FIRSTITEM + idx))]

\* Lines 1099-1110: what an entry that passes adds to the values listed,
\*   map_filtered_category  the values listed so far
\*   list                   the items
\*   have_unknown           filtered_category_have_unknown
AddFilteredValue(view, es, current_cat, e) ==
  LET str == e.by[current_cat]
      idx == es.values[current_cat][str].idx
  IN  IF str = 0 THEN [view EXCEPT !.have_unknown = TRUE]
      ELSE IF ex_hashmap32_getnum(view.map_filtered_category, U32(idx + 1)) # 0
      THEN view
      ELSE [view EXCEPT
              !.map_filtered_category = ex_hashmap32_setnum(@, U32(idx + 1), 1),
              !.list = Append(@, explore_menu_entry(
                                   Val(es.values[current_cat][str].str),
                                   EXPLORE_TYPE_FIRSTITEM + idx))]

\* A mutant: the item of an entry always shows the label.
EntryItem_label(w, e, position) ==
  explore_menu_entry(Val(EntryAt(w, e.playlist_entry).label),
                     EXPLORE_TYPE_FIRSTITEM + position)

\* Lines 1114-1119: the item of the entry at a position of the entry array.
EntryItem(w, e, position) ==
  explore_menu_entry(
    Val(IF ~IsNull(e.original_title) THEN e.original_title
        ELSE EntryAt(w, e.playlist_entry).label),
    EXPLORE_TYPE_FIRSTITEM + position)

\* The loop of lines 1071-1123 from entry k on.
RECURSIVE ListEntriesFrom(_, _, _, _, _, _, _)
ListEntriesFrom(w, es, levels, is_filtered_category, current_cat, k, view) ==
  IF k > Len(es.entries) THEN view
  ELSE ListEntriesFrom(w, es, levels, is_filtered_category, current_cat, k + 1,
         IF ~PassesFilters(w, es, levels, es.entries[k]) THEN view
         ELSE IF is_filtered_category
         THEN AddFilteredValue(view, es, current_cat, es.entries[k])
         ELSE [view EXCEPT !.list = Append(@, EntryItem(w, es.entries[k], k - 1))])

\* Line 1126: the list sorted by path.  The paths are values of one
\* category, no two of which compare equal.
SortedList(l) ==
  LET order == CHOOSE o \in qsort(SeqFrom(LAMBDA i : l[i].path[1].arg, 1, Len(l))) : TRUE
  IN  SeqFrom(LAMBDA i : l[order[i]], 1, Len(l))

\* Lines 1007-1138: the values or the entries that pass the filters of the
\* path, whose categories and values are levels.
FilteredView(w, es, stack, depth, levels) ==
  LET current_type == StackTop(es, stack, depth)
      current_cat  == current_type - EXPLORE_TYPE_FIRSTCATEGORY
      use_find     == es.find_string # << >>
      is_show_all  == depth = 1 /\ ~use_find
      is_filtered_category == IsCategoryType(current_type)
      head  == IF is_filtered_category THEN << >>
               ELSE explore_menu_add_spacer(
                      IF is_show_all
                      THEN << [explore_menu_entry(Lit("Search Name ..."),
                                                  EXPLORE_TYPE_SEARCH)
                                 EXCEPT !.action_ok = "explore_action_ok_find"] >>
                      ELSE << explore_menu_entry(Lit("Add Additional Filter"),
                                                 EXPLORE_TYPE_ADDITIONALFILTER) >>)
      title == IF is_filtered_category
               THEN Lit(" - Select ") \o Lit(explore_by_info[current_cat].name)
               ELSE IF is_show_all THEN Lit("All") ELSE << >>
  IN
  With(ListEntriesFrom(w, es, levels, is_filtered_category, current_cat, 1,
         [map_filtered_category |-> EmptyMap, list |-> head,
          have_unknown |-> FALSE]), LAMBDA view :
  With(IF ~is_filtered_category THEN view.list
       ELSE IF view.have_unknown
       THEN explore_menu_add_spacer(SortedList(view.list))
              \o << explore_menu_entry(Lit("Unknown"), EXPLORE_TYPE_FILTERNULL) >>
       ELSE SortedList(view.list), LAMBDA items :
    [es   |-> [es EXCEPT
                 !.title = @ \o title \o Lit(" (")
                             \o Val(FormatUnsigned(Len(items) - 1)) \o Lit(")")],
     list |-> items]))

\* playlist_free_cached: the playlist cache frees the playlist it holds.
playlist_free_cached(cached, freed) ==
  IF cached = NoPlaylist THEN freed ELSE freed \cup {cached}

\* What a call leaves behind when it runs into a memory error.
Faulty(what, es, stack, cached, freed, m) ==
  [explore_state |-> es, menu_stack |-> stack, list |-> << >>,
   playlist_cached |-> cached, playlists_freed |-> freed, menu |-> m,
   fault |-> what]

\* Lines 1140-1177: the page of the entry at position index of the entries.
ContentPage(w, es, stack, index, freed, m0) ==
  LET ptr    == es.entries[index + 1].playlist_entry
      found  == { k \in 1..Len(es.playlists) : es.playlists[k][2] = PlaylistOf(ptr) }
      pl_idx == CHOOSE k \in found : \A j \in found : k <= j
      cached == IF found = {} THEN NoPlaylist ELSE es.playlists[pl_idx]
  IN  [explore_state   |-> [es EXCEPT !.title = Val(EntryAt(w, ptr).label),
                                      !.cached_playlist = cached],
       menu_stack      |-> stack,
       \* the items of the content page are not made here
       list            |-> << >>,
       playlist_cached |-> cached,
       playlists_freed |-> freed,
       menu            |-> IF found = {} THEN m0
                           ELSE [rpl_entry_selection_ptr |-> IndexOf(ptr) - 1,
                                 deferred_path |-> EntryAt(w, ptr).path],
       fault           |-> "none"]

\* menu_displaylist_explore from line 867 on, with the index es built: what it
\* leaves in explore_state, the menu stack, the list (empty when called), the
\* playlist cache and the menu handle.
menu_displaylist_explore(w, es0, stack0, cached0, freed0, m0) ==
  LET size   == Len(stack0)
      stack  == IF size > 1
                THEN [stack0 EXCEPT
                        ![size].action_get_title = "explore_action_get_title"]
                ELSE stack0
      depth  == size - 1 - es0.top_depth
      current_type == StackTop(es0, stack, depth)
      current_cat  == current_type - EXPLORE_TYPE_FIRSTCATEGORY
      previous     == StackTop(es0, stack, IF depth > 0 THEN depth - 1 ELSE 0)
      is_top == current_type = MENU_EXPLORE_TAB
      freed  == IF is_top THEN playlist_free_cached(cached0, freed0) ELSE freed0
      index  == current_type - EXPLORE_TYPE_FIRSTITEM
      Done(es, l) ==
        [explore_state |-> es, menu_stack |-> stack, list |-> l,
         playlist_cached |-> NoPlaylist, playlists_freed |-> freed, menu |-> m0,
         fault |-> "none"]
  IN  IF depth < 0
      \* depth wraps around, and stack_top[depth] lies outside the stack
      THEN Faulty("stack_read", es0, stack, cached0, freed0, m0)
      ELSE
  With(Levels(es0, stack, depth), LAMBDA levels :
      IF \E l \in 1..Len(levels) : ~levels[l].in_range
      THEN Faulty("by_read", es0, stack, cached0, freed0, m0)
      ELSE
  With(IF depth > 0 THEN PathTitle(es0, stack, depth, levels) ELSE es0, LAMBDA es1 :
      IF is_top /\ cached0 \in freed0
      THEN Faulty("playlist_double_free", es1, stack, NoPlaylist, freed, m0)
      ELSE
  With([es1 EXCEPT !.cached_playlist = NoPlaylist], LAMBDA es2 :
      IF is_top \/ current_type = EXPLORE_TYPE_ADDITIONALFILTER
      THEN Done([es2 EXCEPT
                   !.title = IF is_top THEN Lit("Explore")
                             ELSE @ \o Lit(" - Additional Filter")],
                CategoryItems(es2, stack, depth, is_top))
      ELSE IF /\ depth = 1
              /\ current_type # EXPLORE_TYPE_SEARCH
              /\ current_type # EXPLORE_TYPE_SHOWALL
      THEN IF ~IsCategoryType(current_type) \/ Len(es2.by[current_cat]) = 0
           \* by[current_cat] lies outside by, or entries[0] outside entries
           THEN Faulty("by_read", es2, stack, NoPlaylist, freed, m0)
           ELSE Done([es2 EXCEPT
                        !.title = @ \o Lit("Select ")
                                    \o Lit(explore_by_info[current_cat].name)],
                     ValueItems(es2, current_cat))
      ELSE IF \/ IsCategoryType(previous)
              \/ current_type < EXPLORE_TYPE_FIRSTITEM
      THEN IF \E k \in 1..Len(es2.playlists) : es2.playlists[k] \in freed
           \* the labels of the entries lie in playlists
           THEN Faulty("playlist_read", es2, stack, NoPlaylist, freed, m0)
           ELSE With(FilteredView(w, es2, stack, depth, levels), LAMBDA view :
                  Done(view.es, view.list))
      ELSE IF index >= Len(es2.entries)
      THEN Faulty("entries_read", es2, stack, NoPlaylist, freed, m0)
      ELSE IF \E k \in 1..Len(es2.playlists) : es2.playlists[k] \in freed
      THEN Faulty("playlist_read", es2, stack, NoPlaylist, freed, m0)
      ELSE ContentPage(w, es2, stack, index, freed, m0))))

(***************************************************************************)
(* The data the program is run on                                          *)
(***************************************************************************)

PlaylistEntry(crc32, db_name, label, core_name) ==
  [crc32 |-> crc32, db_name |-> db_name, label |-> label,
   core_name |-> core_name, path |-> Str(<< "/" >>) \o label]

\* A record with a checksum of one byte.
Record(crc, fields) == RdtMap(<< Field("crc", RdtBinary(<< 0, 0, 0, crc >>)) >> \o fields)

DbN == Str(<< "n", ".", "l", "p", "l" >>)
DbS == Str(<< "s", ".", "l", "p", "l" >>)
CoreC == Str(<< "c" >>)
SystemNes == Str(<< "N", "E", "S" >>)
LabelMario == Str(<< "M", "a", "r", "i", "o" >>)
LabelMario64 == Str(<< "M", "A", "R", "I", "O", "6", "4" >>)
LabelZelda == Str(<< "z", "e", "l", "d", "a" >>)
LabelSonic == Str(<< "S", "o", "n", "i", "c" >>)
LabelPong == Str(<< "P", "o", "n", "g" >>)
LabelDoom == Str(<< "D", "o", "o", "m" >>)
TitleZelda == Str(<< "Z", "e", "l", "d", "a", " ", "n", "o" >>)
FieldSega == Str(<< "S", "e", "g", "a" >>)

\* A library of two playlists and a file that is none: five entries have a
\* record; one has no checksum, one no record, and the database of the
\* second playlist is missing.
LibraryWorld ==
  [playlist_dir |->
     << [fname |-> DbN,
         entries |->
           << PlaylistEntry(Str(<< "1" >>), DbN, LabelMario, CoreC),
              PlaylistEntry(Str(<< "2" >>), DbN, LabelZelda, << >>),
              PlaylistEntry(Str(<< "3" >>), DbN, LabelSonic, NullStr),
              PlaylistEntry(Str(<< "4" >>), DbN, LabelPong, << >>),
              PlaylistEntry(Str(<< "0", "x", "1", "B" >>), DbN, LabelMario64, CoreC),
              PlaylistEntry(<< >>, DbN, LabelDoom, CoreC),
              PlaylistEntry(Str(<< "6" >>), DbN, LabelDoom, CoreC) >>],
        [fname |-> Str(<< "r", ".", "t", "x", "t" >>),
         entries |-> << PlaylistEntry(Str(<< "3" >>), DbN, LabelDoom, CoreC) >>],
        [fname |-> DbS,
         entries |->
           << PlaylistEntry(Str(<< "1" >>), DbS, LabelDoom, CoreC),
              PlaylistEntry(Str(<< "2" >>), DbS, LabelPong, CoreC) >>] >>,
   databases |->
     { [path |-> Str(<< "n", ".", "r", "d", "b" >>),
        items |->
          << Record(1, << Field("developer", RdtString(FieldNintendo)),
                          Field("genre", RdtString(FieldActionAdventure)),
                          Field("releaseyear", RdtInt(1990)) >>),
             RdtString(LabelDoom),
             Record(2, << Field("developer", RdtString(FieldNintendoUpper)),
                          Field("original_title", RdtString(TitleZelda)),
                          Field("genre", RdtString(FieldAdventure)) >>),
             Record(9, << Field("developer", RdtString(FieldApple)) >>),
             Record(3, << Field("genre", RdtString(FieldAction)),
                          Field("developer", RdtString(FieldSega)),
                          Field("releaseyear", RdtInt(1991)) >>),
             RdtMap(<< Field("developer", RdtString(FieldBanana)) >>),
             Record(4, << Field("developer", RdtString(<< >>)),
                          Field("releaseyear", RdtInt(0)) >>),
             Record(27, << Field("developer", RdtString(FieldAtariInc)),
                           Field("genre", RdtString(FieldAction)) >>) >>] },
   core_list |-> << [display_name |-> CoreC, systemname |-> SystemNes] >>]

\* Two entries whose labels compare equal, numeric fields, a field with a
\* delimiter in a category of single values, a record that names its
\* system, and no core list.
SmallWorld ==
  [playlist_dir |->
     << [fname |-> Str(<< "a", ".", "L", "P", "L" >>),
         entries |->
           << PlaylistEntry(Str(<< "a" >>), DbN, Str(<< "a", "b" >>), CoreC),
              PlaylistEntry(Str(<< " ", "+", "B" >>), DbN, Str(<< "a", "B" >>), << >>) >>] >>,
   databases |->
     { [path |-> Str(<< "n", ".", "r", "d", "b" >>),
        items |->
          << Record(10, << Field("users", RdtInt(2)),
                           Field("origin", RdtString(Str(<< "a", "/", "b" >>))) >>),
             Record(11, << Field("users", RdtInt(-1)),
                           Field("system", RdtString(SystemNes)) >>) >>] },
   core_list |-> "NULL"]

\* A record whose genre is a blank.
BlankFieldWorld ==
  [playlist_dir |->
     << [fname |-> DbN,
         entries |-> << PlaylistEntry(Str(<< "1" >>), DbN, LabelPong, << >>) >>] >>,
   databases |->
     { [path |-> Str(<< "n", ".", "r", "d", "b" >>),
        items |-> << Record(1, << Field("genre", RdtString(Str(<< " " >>))) >>) >>] },
   core_list |-> << >>]

\* A record that names its system, of an entry whose core names one too.
TwoSystemsWorld ==
  [playlist_dir |->
     << [fname |-> DbN,
         entries |-> << PlaylistEntry(Str(<< "1" >>), DbN, LabelPong, CoreC) >>] >>,
   databases |->
     { [path |-> Str(<< "n", ".", "r", "d", "b" >>),
        items |-> << Record(1, << Field("system", RdtString(SystemNes)) >>) >>] },
   core_list |-> << [display_name |-> CoreC, systemname |-> SystemNes] >>]

\* No playlist at all.
EmptyWorld ==
  [playlist_dir |-> << >>, databases |-> {}, core_list |-> "NULL"]

Worlds == { LibraryWorld, SmallWorld, BlankFieldWorld, TwoSystemsWorld, EmptyWorld }

DbA == Str(<< "a", ".", "l", "p", "l" >>)
DbB == Str(<< "b", ".", "l", "p", "l" >>)
TagN == Str(<< "n" >>)

\* Two playlists that share a database and a missing one; an entry whose
\* checksum another entry of the database has, one whose checksum reads as
\* 0, and records with the checksum 0 and without an entry.
SharedTagsWorld ==
  [playlist_dir |->
     << [fname |-> DbA,
         entries |->
           << PlaylistEntry(Str(<< "1" >>), DbN, LabelPong, CoreC),
              PlaylistEntry(Str(<< "2" >>), DbS, LabelDoom, CoreC),
              PlaylistEntry(Str(<< "5" >>), DbS, LabelSonic, CoreC) >>],
        [fname |-> DbB,
         entries |->
           << PlaylistEntry(Str(<< "3" >>), DbS, LabelSonic, << >>),
              PlaylistEntry(Str(<< "4" >>), DbN, LabelZelda, << >>),
              PlaylistEntry(Str(<< "1" >>), DbN, LabelMario, << >>),
              PlaylistEntry(Str(<< "z" >>), DbN, LabelDoom, << >>) >>] >>,
   databases |->
     { [path |-> Str(<< "n", ".", "r", "d", "b" >>),
        items |->
          << Record(1, << Field("developer", RdtString(FieldNintendo)) >>),
             Record(3, << Field("developer", RdtString(FieldSega)) >>),
             Record(0, << Field("developer", RdtString(FieldApple)) >>),
             Record(4, << Field("genre", RdtString(FieldActionAdventure)) >>),
             Record(1, << Field("developer", RdtString(FieldAtari)) >>) >>] },
   core_list |-> << [display_name |-> CoreC, systemname |-> SystemNes] >>]

\* Fields whose values have another type than the code reads them as, and a
\* key that is no string.
WrongTypeWorld ==
  [playlist_dir |->
     << [fname |-> DbN,
         entries |->
           << PlaylistEntry(Str(<< "1" >>), DbN, LabelMario, << >>),
              PlaylistEntry(Str(<< "2" >>), DbN, LabelZelda, << >>),
              PlaylistEntry(Str(<< "7" >>), DbN, LabelPong, << >>) >>] >>,
   databases |->
     { [path |-> Str(<< "n", ".", "r", "d", "b" >>),
        items |->
          << Record(1, << Field("developer", RdtInt(5)),
                          Field("releaseyear", RdtString(Str(<< "1", "9", "9", "0" >>))),
                          [key |-> RdtInt(1), value |-> RdtString(FieldSega)] >>),
             Record(2, << Field("original_title", RdtInt(3)),
                          Field("genre", RdtBinary(<< 65 >>)) >>),
             RdtMap(<< Field("crc", RdtString(Str(<< "7" >>))),
                       Field("developer", RdtString(FieldSega)) >>) >>] },
   core_list |-> << >>]

\* A record without a system, of an entry whose core names one.
CoreSystemWorld ==
  [playlist_dir |->
     << [fname |-> DbN,
         entries |-> << PlaylistEntry(Str(<< "1" >>), DbN, LabelPong, CoreC) >>] >>,
   databases |->
     { [path |-> Str(<< "n", ".", "r", "d", "b" >>),
        items |-> << Record(1, << Field("developer", RdtString(FieldSega)) >>) >>] },
   core_list |-> << [display_name |-> CoreC, systemname |-> SystemNes] >>]

\* Two database names of one database file.
SameFileWorld ==
  [playlist_dir |->
     << [fname |-> DbN,
         entries |->
           << PlaylistEntry(Str(<< "1" >>), DbN, LabelMario, << >>),
              PlaylistEntry(Str(<< "2" >>), TagN, LabelZelda, << >>) >>] >>,
   databases |->
     { [path |-> Str(<< "n", ".", "r", "d", "b" >>),
        items |->
          << Record(1, << Field("genre", RdtString(FieldAction)) >>),
             Record(2, << Field("genre", RdtString(FieldAdventure)) >>) >>] },
   core_list |-> "NULL"]

BuildWorlds ==
  Worlds \cup { SharedTagsWorld, WrongTypeWorld, CoreSystemWorld, SameFileWorld }

\* What a search dialog is completed with.
SearchLines == { << >>, Str(<< "m", "a", "R", "I", "O" >>), Str(<< "A" >>) }

\* What an integer read from a value of another type may be.
GarbageInts == { 0, 7 }

\* What the reads of a value as a value of another type come upon: the
\* integer, and whether the pointer points to memory that can be read.
Garbage == [int : GarbageInts, readable : BOOLEAN]

\* The most entries of the menu stack, the most builds, and the most entries
\* of the menu stack when the index is released.
MaxStack     == 6
MaxBuilds    == 2
MaxFreeStack == 2

\* The most pieces of a title.  The title buffer holds 1024 bytes, which no
\* title of this many pieces of the data below comes near, so that nothing
\* is cut off.
MaxTitle == 20

(***************************************************************************)
(* The program: the menu driver shows the explore view, and the user       *)
(* selects items, completes search dialogs and goes back.                  *)
(***************************************************************************)

Init ==
  /\ world \in Worlds
  /\ explore_state = ExploreNull
  /\ menu_stack = << [type |-> MENU_EXPLORE_TAB, action_get_title |-> "none"] >>
  /\ list = << >>
  /\ input_dialog = "closed"
  /\ playlist_cached = NoPlaylist
  /\ playlists_freed = {}
  /\ menu = [rpl_entry_selection_ptr |-> 0, deferred_path |-> << >>]
  /\ builds = 0
  /\ fault = "none"
  /\ n_cat = 0
  /\ n_todo = << >>
  /\ n_hist = << >>
  /\ n_pre = 0
  /\ n_before = EmptyCat
  /\ n_ns = EmptyCat
  /\ n_sorted = FALSE
  /\ BuildIdle
  /\ MapIdle

\* The state a call of menu_displaylist_explore leaves.
Leaves(r) ==
  /\ IF r.explore_state.null THEN TRUE
     ELSE Len(r.explore_state.title) <= MaxTitle
  /\ explore_state' = r.explore_state
  /\ menu_stack' = r.menu_stack
  /\ list' = r.list
  /\ playlist_cached' = r.playlist_cached
  /\ playlists_freed' = r.playlists_freed
  /\ menu' = r.menu
  /\ fault' = r.fault

\* explore_build_list reads the world only, so that what it builds is a
\* function of the world and of what its reads of undefined bytes come upon:
\* for each world the indexes it can build, each with the orders qsort may
\* leave its entries in.  The worlds are those of the build in steps, which
\* include those of the program.
BuiltIndexes ==
  { With(BuildIndex(w, garbage, pre), LAMBDA b :
      [w      |-> w,
       index  |-> b,
       orders |-> IF b.fault # "none" THEN {}
                  ELSE qsort(LabelsOf(w, b.entries))]) :
    w \in BuildWorlds, garbage \in Garbage, pre \in 0..MaxPre }

\* Lines 861-865: what explore_build_list and the line after it can leave,
\* the explore_state or a fault, when the menu stack has size entries.
explore_build_list(w, build, size) ==
  UNION { IF r.index.fault # "none"
          THEN { [es |-> ExploreNull, fault |-> r.index.fault] }
          ELSE { [es    |-> [BuiltState(w, r.index, order, build)
                               EXCEPT !.top_depth = size - 1],
                  fault |-> "none"] :
                 order \in r.orders }
          : r \in { t \in BuiltIndexes : t.w = w } }

\* A mutant: the index is built by every call.
Display_always(stack) ==
  /\ builds' = builds + 1
  /\ \E b \in explore_build_list(world, builds + 1, Len(stack)) :
       Leaves(IF b.fault # "none"
              THEN Faulty(b.fault, explore_state, stack, playlist_cached,
                          playlists_freed, menu)
              ELSE menu_displaylist_explore(world, b.es, stack, playlist_cached,
                                            playlists_freed, menu))

\* menu_displaylist_explore, called with the menu stack being stack: the
\* index is built when there is none.
Display(stack) ==
  /\ builds' = IF explore_state.null THEN builds + 1 ELSE builds
  /\ \E b \in IF explore_state.null
              THEN explore_build_list(world, builds + 1, Len(stack))
              ELSE { [es |-> explore_state, fault |-> "none"] } :
       Leaves(IF b.fault # "none"
              THEN Faulty(b.fault, explore_state, stack, playlist_cached,
                          playlists_freed, menu)
              ELSE menu_displaylist_explore(world, b.es, stack, playlist_cached,
                                            playlists_freed, menu))

Running == fault = "none" /\ input_dialog = "closed"

\* The menu driver shows the list of the entry on top of the menu stack.
Refresh ==
  /\ Running
  /\ Display(menu_stack)
  /\ UNCHANGED << world, input_dialog, normVars, buildVars, mapVars >>

\* explore_action_ok: the user selects an item of the list, which pushes an
\* entry of the item's type.
Select(i) ==
  /\ Running
  /\ list[i].action_ok = "explore_action_ok"
  /\ Len(menu_stack) < MaxStack
  /\ Display(Append(menu_stack, [type |-> list[i].type, action_get_title |-> "none"]))
  /\ UNCHANGED << world, input_dialog, normVars, buildVars, mapVars >>

\* explore_action_ok_find: the user selects the search item.
Find(i) ==
  /\ Running
  /\ list[i].action_ok = "explore_action_ok_find"
  /\ input_dialog' = "open"
  /\ UNCHANGED << world, explore_state, menu_stack, list, playlist_cached,
                  playlists_freed, menu, builds, fault, normVars, buildVars, mapVars >>

\* explore_action_find_complete: the dialog ends with a line.
FindComplete(line) ==
  /\ fault = "none"
  /\ input_dialog = "open"
  /\ input_dialog' = "closed"
  /\ IF line = << >>
     THEN UNCHANGED << explore_state, menu_stack, list, playlist_cached,
                       playlists_freed, menu, builds, fault >>
     ELSE IF explore_state.null
     \* explore_state->find_string is written through a NULL pointer
     THEN /\ fault' = "explore_state_write"
          /\ UNCHANGED << explore_state, menu_stack, list, playlist_cached,
                          playlists_freed, menu, builds >>
     ELSE /\ builds' = builds
          /\ Leaves(menu_displaylist_explore(world,
                      [explore_state EXCEPT !.find_string = line],
                      Append(menu_stack, [type |-> EXPLORE_TYPE_SEARCH,
                                          action_get_title |-> "none"]),
                      playlist_cached, playlists_freed, menu))
  /\ UNCHANGED << world, normVars, buildVars, mapVars >>

\* The user goes back: the menu driver pops the entry on top.
Back ==
  /\ Running
  /\ Len(menu_stack) > 1
  /\ Display(SubSeq(menu_stack, 1, Len(menu_stack) - 1))
  /\ UNCHANGED << world, input_dialog, normVars, buildVars, mapVars >>

\* From the page of an entry the menu driver pops the entries above the one
\* the explore view started from, and shows that one.
ReturnToTop ==
  /\ Running
  /\ ~explore_state.null
  /\ playlist_cached # NoPlaylist
  /\ Len(menu_stack) > explore_state.top_depth + 2
  /\ Display(SubSeq(menu_stack, 1, explore_state.top_depth + 1))
  /\ UNCHANGED << world, input_dialog, normVars, buildVars, mapVars >>

\* menu_explore_free and explore_free: the index is released, and with it
\* the playlists but the cached one.
MenuExploreFree ==
  /\ Running
  /\ ~explore_state.null
  /\ builds < MaxBuilds
  /\ Len(menu_stack) <= MaxFreeStack
  /\ LET released == { explore_state.playlists[k] : k \in 1..Len(explore_state.playlists) }
                       \ { explore_state.cached_playlist }
     IN  /\ playlists_freed' = playlists_freed \cup released
         /\ fault' = IF released \cap playlists_freed # {}
                     THEN "playlist_double_free" ELSE "none"
  /\ explore_state' = ExploreNull
  /\ UNCHANGED << world, menu_stack, list, input_dialog, playlist_cached, menu,
                  builds, normVars, buildVars, mapVars >>

Next ==
  \/ Refresh
  \/ \E i \in 1..Len(list) : Select(i)
  \/ \E i \in 1..Len(list) : Find(i)
  \/ \E line \in SearchLines : FindComplete(line)
  \/ Back
  \/ ReturnToTop
  \/ MenuExploreFree

Spec == Init /\ [][Next]_vars

(***************************************************************************)
(* explore_build_list step by step: one step per file of the playlist      *)
(* directory, per playlist entry, per database item, and the sort.         *)
(***************************************************************************)

BuildInit ==
  /\ world \in BuildWorlds
  /\ b_garbage \in Garbage
  /\ b_pre \in 0..MaxPre
  /\ b_pc = [at |-> "readdir", d |-> 1, j |-> 0, i |-> 0, k |-> 0]
  /\ b_scan = EmptyScan
  /\ b_map_cores = EmptyMap
  /\ b_idx = EmptyIndex
  /\ explore_state = ExploreNull
  /\ menu_stack = << >>
  /\ list = << >>
  /\ input_dialog = "closed"
  /\ playlist_cached = NoPlaylist
  /\ playlists_freed = {}
  /\ menu = << >>
  /\ builds = 0
  /\ fault = "none"
  /\ n_cat = 0
  /\ n_todo = << >>
  /\ n_hist = << >>
  /\ n_pre = 0
  /\ n_before = EmptyCat
  /\ n_ns = EmptyCat
  /\ n_sorted = FALSE
  /\ MapIdle

\* Lines 529-545: the next file of the directory; a playlist is read from a
\* file whose name ends in .lpl.
ReadDir ==
  /\ b_pc.at = "readdir"
  /\ IF b_pc.d > Len(world.playlist_dir)
     THEN /\ b_pc' = [b_pc EXCEPT !.at = "cores"]
          /\ b_scan' = b_scan
     ELSE IF ~IsPlaylistFile(world.playlist_dir[b_pc.d].fname)
     THEN /\ b_pc' = [b_pc EXCEPT !.d = @ + 1]
          /\ b_scan' = b_scan
     ELSE /\ b_pc' = [b_pc EXCEPT !.at = "entries", !.j = 1]
          /\ b_scan' = [b_scan EXCEPT !.used_entries = 0]
  /\ UNCHANGED << b_map_cores, b_idx, b_garbage, b_pre, mainVars, normVars, mapVars >>

\* Lines 549-602: one entry of the playlist.
IndexPlaylistEntry ==
  /\ b_pc.at = "entries"
  /\ b_pc.j <= Len(world.playlist_dir[b_pc.d].entries)
  /\ b_scan' = IndexEntry(world, b_scan, b_pc.d, b_pc.j)
  /\ b_pc' = [b_pc EXCEPT !.j = @ + 1]
  /\ UNCHANGED << b_map_cores, b_idx, b_garbage, b_pre, mainVars, normVars, mapVars >>

\* Lines 605-608: the playlist is kept when an entry of it was registered.
ClosePlaylist ==
  /\ b_pc.at = "entries"
  /\ b_pc.j > Len(world.playlist_dir[b_pc.d].entries)
  /\ b_scan' = IF b_scan.used_entries # 0
               THEN [b_scan EXCEPT !.playlists = Append(@, b_pc.d)]
               ELSE [b_scan EXCEPT !.dropped = Append(@, b_pc.d)]
  /\ b_pc' = [b_pc EXCEPT !.at = "readdir", !.d = @ + 1, !.j = 0]
  /\ UNCHANGED << b_map_cores, b_idx, b_garbage, b_pre, mainVars, normVars, mapVars >>

\* Lines 611-615.
MapCoreList ==
  /\ b_pc.at = "cores"
  /\ b_map_cores' = MapCores(world)
  /\ b_pc' = [b_pc EXCEPT !.at = "records", !.i = 1, !.k = 1]
  /\ UNCHANGED << b_scan, b_idx, b_garbage, b_pre, mainVars, normVars, mapVars >>

\* The items of database i.
ItemsOf(i) == RdbItems(world, b_scan.rdbs[i].path)

\* Lines 629-738: one item of the database.
ReadItem ==
  /\ b_pc.at = "records"
  /\ b_idx.fault = "none"
  /\ b_pc.i <= Len(b_scan.rdbs)
  /\ b_pc.k <= Len(ItemsOf(b_pc.i))
  /\ b_idx' = AddRecord(world, b_idx, b_scan.rdbs[b_pc.i], b_map_cores,
                        ItemsOf(b_pc.i)[b_pc.k], b_garbage, b_pre)
  /\ b_pc' = [b_pc EXCEPT !.k = @ + 1]
  /\ UNCHANGED << b_scan, b_map_cores, b_garbage, b_pre, mainVars, normVars, mapVars >>

\* Lines 740-744: the database is closed after its last item.
CloseDatabase ==
  /\ b_pc.at = "records"
  /\ b_idx.fault = "none"
  /\ b_pc.i <= Len(b_scan.rdbs)
  /\ b_pc.k > Len(ItemsOf(b_pc.i))
  /\ b_pc' = [b_pc EXCEPT !.i = @ + 1, !.k = 1]
  /\ UNCHANGED << b_scan, b_map_cores, b_idx, b_garbage, b_pre, mainVars, normVars, mapVars >>

\* Lines 751-766: the arrays of the categories are sorted and their values
\* numbered, and the entries are sorted.
SortIndex ==
  /\ b_pc.at = "records"
  /\ b_idx.fault = "none"
  /\ b_pc.i > Len(b_scan.rdbs)
  /\ \E order \in qsort(LabelsOf(world, b_idx.entries)) :
        b_idx' = [b_idx EXCEPT
                    !.cats = ForCats(LAMBDA c : SortedCategory(b_idx.cats[c])),
                    !.entries = SeqFrom(LAMBDA k : b_idx.entries[order[k]],
                                        1, Len(order))]
  /\ b_pc' = [b_pc EXCEPT !.at = "done"]
  /\ UNCHANGED << b_scan, b_map_cores, b_garbage, b_pre, mainVars, normVars, mapVars >>

BuildNext ==
  \/ ReadDir
  \/ IndexPlaylistEntry
  \/ ClosePlaylist
  \/ MapCoreList
  \/ ReadItem
  \/ CloseDatabase
  \/ SortIndex

SpecBuild == BuildInit /\ [][BuildNext]_vars

\* The build in steps leaves what explore_build_list leaves.
BuildInStepsAgrees ==
  b_pc.at = "done" =>
    \E r \in BuiltIndexes :
       /\ r.w = world
       /\ r.index.cats = b_idx.cats
       /\ r.index.playlists = b_scan.playlists
       /\ \E order \in r.orders :
             b_idx.entries = SeqFrom(LAMBDA k : r.index.entries[order[k]],
                                     1, Len(order))

(***************************************************************************)
(* The map on its own: calls of ex_hashmap32_setnum on a map that starts   *)
(* out zeroed, with keys that share slots in a map of 16 and of 32 slots.  *)
(***************************************************************************)

\* The keys of the calls: 1, 17 and 2^16 + 1 share slot 1 of 16 slots, 15
\* and 31 share slot 15, the last of them, and go on to slot 0, that of 16.
MapKeys ==
  { U32Zero, << 0, 1 >>, << 0, 17 >>, << 1, 1 >>, << 0, 15 >>, << 0, 31 >>,
    << 0, 16 >>, << 0, 4 >>, << 0, 6 >>, << 0, 8 >> }

\* The values of the calls: 0..MaxVal for the keys of slot 1 and for key 0,
\* MaxVal for the others.
MaxVal == 1

ValuesOf(key) ==
  IF key = U32Zero \/ MaskIndex(key, 16) = 1 THEN 0..MaxVal ELSE { MaxVal }

MapInit ==
  /\ m_map = EmptyMap
  /\ m_last = [k \in MapKeys |-> << >>]
  /\ world = EmptyWorld
  /\ explore_state = ExploreNull
  /\ menu_stack = << >>
  /\ list = << >>
  /\ input_dialog = "closed"
  /\ playlist_cached = NoPlaylist
  /\ playlists_freed = {}
  /\ menu = << >>
  /\ builds = 0
  /\ fault = "none"
  /\ n_cat = 0
  /\ n_todo = << >>
  /\ n_hist = << >>
  /\ n_pre = 0
  /\ n_before = EmptyCat
  /\ n_ns = EmptyCat
  /\ n_sorted = FALSE
  /\ BuildIdle

\* ex_hashmap32_setnum(&map, key, val); a call with key 0 sets no value.
SetNum(key, val) ==
  /\ m_map' = ex_hashmap32_setnum(m_map, key, val)
  /\ m_last' = IF key = U32Zero THEN m_last ELSE [m_last EXCEPT ![key] = << val >>]
  /\ UNCHANGED << mainVars, normVars, buildVars >>

MapNext == \E key \in MapKeys : \E val \in ValuesOf(key) : SetNum(key, val)

SpecMap == MapInit /\ [][MapNext]_vars

\* The keys that calls have set, key 0 apart.
KeysSet == { k \in MapKeys : m_last[k] # << >> /\ k # U32Zero }

\* The slots of the map that hold a key.
SlotsUsed == { i \in 1..m_map.cap : m_map.keys[i] # U32Zero }

\* C16: the map is a finite function of the keys that are not 0.  After any
\* calls of ex_hashmap32_setnum on a zeroed map, ex_hashmap32_getnum gives
\* for a key the value the last call set for it, and 0 for a key no call
\* set and for key 0; len is the number of the keys set; a call with key 0
\* leaves the map as it is; the capacity is 0, or a power of two from 16 on
\* of which the keys fill half at most, so that a probe comes upon an empty
\* slot; and every key set is in one slot, which a probe from the key's own
\* slot reaches over slots in use.
C16_MapIsFiniteFunction ==
  /\ \A k \in MapKeys :
        ex_hashmap32_getnum(m_map, k) = IF k \in KeysSet THEN m_last[k][1] ELSE 0
  /\ m_map.len = Cardinality(KeysSet)
  /\ \A v \in 0..MaxVal : ex_hashmap32_setnum(m_map, U32Zero, v) = m_map
  /\ m_map.cap \in { 0, 16, 32, 64 }
  /\ 2 * m_map.len <= m_map.cap
  /\ Len(m_map.keys) = m_map.cap /\ Len(m_map.vals) = m_map.cap
  /\ Cardinality(SlotsUsed) = m_map.len
  /\ { m_map.keys[i] : i \in SlotsUsed } = KeysSet
  /\ \A i \in SlotsUsed :
        \A n \in 0..(m_map.cap - 1) :
           (MaskIndex(m_map.keys[i], m_map.cap) + n) % m_map.cap = i - 1 =>
             \A a \in 0..n :
                ((MaskIndex(m_map.keys[i], m_map.cap) + a) % m_map.cap) + 1 \in SlotsUsed

\* The map has grown to 32 slots with nine keys in it; a key is in another
\* slot than its own, a key of more than 16 bits is in it, and the last call
\* for a key set the value 0.
C16_Witness ==
  /\ m_map.cap = 32
  /\ m_map.len = 9
  /\ \E i \in SlotsUsed : MaskIndex(m_map.keys[i], m_map.cap) # i - 1
  /\ << 1, 1 >> \in KeysSet
  /\ \E k \in KeysSet : m_last[k] = << 0 >>

(***************************************************************************)
(* What the normalizer is to compute, stated on the segments of a field.   *)
(***************************************************************************)

RECURSIVE TrimLeft(_)
TrimLeft(s) == IF s # << >> /\ Head(s) = Ord(" ") THEN TrimLeft(Tail(s)) ELSE s

RECURSIVE TrimRight(_)
TrimRight(s) ==
  IF s # << >> /\ s[Len(s)] = Ord(" ") THEN TrimRight(SubSeq(s, 1, Len(s) - 1)) ELSE s

Trim(s) == TrimRight(TrimLeft(s))

IsBlank(s) == Trim(s) = << >>

\* The end of the segment that starts at from: the next delimiter, or Len+1.
SegmentEnd(f, from) ==
  IF \E i \in from..Len(f) : f[i] \in Delimiters
  THEN CHOOSE i \in from..Len(f) :
         f[i] \in Delimiters /\ \A j \in from..(i - 1) : f[j] \notin Delimiters
  ELSE Len(f) + 1

\* The segments of a field from position from on, each with the delimiter
\* that ends it (0 at the end of the field).
RECURSIVE SegmentsFrom(_, _)
SegmentsFrom(f, from) ==
  LET d == SegmentEnd(f, from)
  IN  << [seg |-> Slice(f, from, d), delim |-> Ch(f, d)] >>
        \o (IF d > Len(f) THEN << >> ELSE SegmentsFrom(f, d + 1))

Segments(cat, f) ==
  IF explore_by_info[cat].use_split THEN SegmentsFrom(f, 1)
  ELSE << [seg |-> f, delim |-> 0] >>

SuffixTokens == { Str(<< "i", "n", "c" >>), Str(<< "l", "t", "d" >>), Str(<< "t", "h", "e" >>) }

\* Inc, Ltd or The in any letter case, with or without a period.
IsSuffixToken(s) ==
  /\ Len(s) \in {3, 4}
  /\ LowerStr(SubSeq(s, 1, 3)) \in SuffixTokens
  /\ Len(s) = 4 => s[4] = Ord(".")

\* A trimmed segment without its trailing suffix token.
Canonical(cat, s) ==
  IF explore_by_info[cat].is_company /\ Len(s) > 5
  THEN LET n == IF s[Len(s)] = Ord(".") THEN 4 ELSE 3
       IN  IF s[Len(s) - n] = Ord(" ") /\ IsSuffixToken(SubSeq(s, Len(s) - n + 1, Len(s)))
           THEN Trim(SubSeq(s, 1, Len(s) - n))
           ELSE s
  ELSE s

\* The values of the segments segs[i..]; absorb tells whether a suffix token
\* that follows a comma is part of the value before it.
RECURSIVE ValuesFrom(_, _, _, _)
ValuesFrom(cat, segs, i, absorb) ==
  IF i > Len(segs) THEN << >>
  ELSE << Canonical(cat, Trim(segs[i].seg)) >>
         \o (IF /\ absorb
                /\ explore_by_info[cat].is_company
                /\ i < Len(segs)
                /\ segs[i].delim = Ord(",")
                /\ IsSuffixToken(Trim(segs[i + 1].seg))
             THEN ValuesFrom(cat, segs, i + 2, absorb)
             ELSE ValuesFrom(cat, segs, i + 1, absorb))

\* The pointers a call gave the entry: the primary value, then the
\* secondary values it appended.
Assigned(ns) ==
  IF ns.e_by = 0 THEN << >>
  ELSE << ns.e_by >> \o [k \in 1..Len(ns.split_buf) |-> ns.split_buf[k][2]]

SegmentHash(s) == ex_hash32_nocase_filtered(s, Ord("0"), 255)

\* The entry got one FacetValue per expected value, in order: the one
\* interned under the value's hash, which holds the value's bytes when the
\* call created it.
AssignedAre(before, after, values) ==
  /\ Len(Assigned(after)) = Len(values)
  /\ \A i \in 1..Len(values) :
        LET ptr == Assigned(after)[i]
        IN  /\ ex_hashmap32_getnum(after.map, SegmentHash(values[i])) = ptr
            /\ ptr > Len(before.arena) =>
                 \E j \in 1..i : /\ after.arena[ptr].str = values[j]
                                 /\ SegmentHash(values[j]) = SegmentHash(values[i])

\* The field of the last record normalized.
LastField == n_hist[Len(n_hist)]

Called == n_hist # << >> /\ ~n_sorted

HasField == Called /\ LastField # NullStr /\ LastField # << >>

AllSegmentsNonBlank(cat, f) ==
  \A i \in 1..Len(Segments(cat, f)) : ~IsBlank(Segments(cat, f)[i].seg)

(***************************************************************************)
(* Properties of the normalizer, checked under SpecNorm                    *)
(***************************************************************************)

\* C4: within a category no two FacetValues are equal under case-insensitive
\* comparison, and a field that differs from the field of an earlier record
\* only in letter case creates no FacetValue.
C4_CaseVariantsInternOnce ==
  /\ \A i, j \in 1..Len(n_ns.by) :
        i # j => strcasecmp(n_ns.arena[n_ns.by[i]].str, n_ns.arena[n_ns.by[j]].str) # 0
  /\ ( /\ Len(n_hist) = 2
       /\ n_ns.fault = "none"
       /\ n_hist[2] # << >>
       /\ AllSegmentsNonBlank(n_cat, n_hist[2])
       /\ LowerStr(n_hist[1]) = LowerStr(n_hist[2]) )
     => /\ Len(n_ns.arena) = Len(n_before.arena)
        /\ n_ns.e_by # 0

\* C4 witness: "Nintendo" then "NINTENDO" are one value, "Nintendo".
C4_Witness ==
  /\ n_hist = << FieldNintendo, FieldNintendoUpper >>
  /\ StrsOf(n_ns, n_ns.by) = << FieldNintendo >>
  /\ n_ns.e_by = 1

\* C5, as claimed: after the sort, of any two adjacent values of the array
\* the first is case-insensitively less than or equal to the second.
C5_SortedCaseInsensitive ==
  n_sorted =>
    \A k \in 1..(Len(n_ns.by) - 1) :
       strcasecmp(n_ns.arena[n_ns.by[k]].str, n_ns.arena[n_ns.by[k + 1]].str) <= 0

IsCompanyCat == explore_by_info[n_cat].is_company

\* C6, as claimed: "Nintendo Co., Ltd." and "Nintendo" give one FacetValue.
C6_NintendoCoLtdIsNintendo ==
  ( /\ IsCompanyCat
    /\ n_ns.fault = "none"
    /\ n_hist \in { << FieldNintendoCoLtd, FieldNintendo >>,
                    << FieldNintendo, FieldNintendoCoLtd >> } )
  => Len(n_ns.by) = 1

\* C6, amended: "Nintendo, Ltd." and "Nintendo" give one FacetValue,
\* "Nintendo"; "Nintendo Co., Ltd." gives the single value "Nintendo Co.",
\* which is not the FacetValue of "Nintendo".
C6_NintendoLtdIsNintendo ==
  IsCompanyCat =>
    /\ n_hist \in { << FieldNintendoLtd, FieldNintendo >>,
                    << FieldNintendo, FieldNintendoLtd >> }
       => /\ StrsOf(n_ns, n_ns.by) = << FieldNintendo >>
          /\ n_ns.e_by = 1
          /\ n_ns.split_buf = << >>
    /\ (Len(n_hist) = 1 /\ n_hist[1] = FieldNintendoCoLtd /\ ~n_sorted)
       => /\ StrsOf(n_ns, n_ns.by) = << FieldNintendoCo >>
          /\ n_ns.e_by = 1
          /\ n_ns.split_buf = << >>
    /\ n_hist \in { << FieldNintendoCoLtd, FieldNintendo >>,
                    << FieldNintendo, FieldNintendoCoLtd >> }
       => Len(n_ns.by) = 2

C6_Witness ==
  /\ n_cat = EXPLORE_BY_DEVELOPER
  /\ n_hist = << FieldNintendoLtd, FieldNintendo >>
  /\ StrsOf(n_ns, n_ns.by) = << FieldNintendo >>

\* The places of a field that starts with a non-blank segment ended by a
\* comma, then spaces, a suffix token, spaces, and the end of the field or a
\* delimiter: the comma, the token, what follows the token's spaces.
CommaSuffixPlaces(f) ==
  LET c == SegmentEnd(f, 1)
      t == SkipSpaces(f, c + 1)
      n == IF ~IsSuffixToken(<< Ch(f, t), Ch(f, t + 1), Ch(f, t + 2) >>) THEN 0
           ELSE IF Ch(f, t + 3) = Ord(".") THEN 4
           ELSE 3
  IN  [comma |-> c, token |-> n, after |-> SkipSpaces(f, t + n)]

IsCommaSuffixField(f) ==
  LET pl == CommaSuffixPlaces(f)
  IN  /\ Ch(f, pl.comma) = Ord(",")
      /\ ~IsBlank(Slice(f, 1, pl.comma))
      /\ pl.token > 0
      /\ Ch(f, pl.after) \in Delimiters \cup {0}

\* C7: in an organization-name category, a suffix token that follows the
\* comma ending a segment, and is followed by the end of the field or by a
\* delimiter, gives no value: the call leaves what the segment alone gives
\* when the field ends there, and otherwise goes on with the text after that
\* delimiter; "Atari, Inc" is the one value "Atari", with no secondary value.
C7_CommaSuffixIsNoValue ==
  /\ (HasField /\ IsCompanyCat /\ IsCommaSuffixField(LastField))
     => LET pl    == CommaSuffixPlaces(LastField)
            first == explore_add_unique_string(n_before, n_cat,
                       Slice(LastField, 1, pl.comma), FALSE, n_pre)
        IN  /\ first.fault = "none"
            /\ Assigned(first) = << first.e_by >>
            /\ IF Ch(LastField, pl.after) = 0
               THEN n_ns = first
               ELSE n_ns = ScanFrom(first, n_cat, LastField, FALSE, n_pre,
                                    pl.after + 1, pl.after + 1)
  /\ (Called /\ IsCompanyCat /\ n_hist = << FieldAtariInc >>)
     => /\ StrsOf(n_ns, n_ns.by) = << FieldAtari >>
        /\ n_ns.e_by = 1
        /\ n_ns.split_buf = << >>

\* C7 witnesses: "Atari, Inc", and a token with a delimiter after it.
C7_Witness ==
  /\ Called /\ n_cat = EXPLORE_BY_DEVELOPER
  /\ n_hist = << FieldSegaTheAtari >>
  /\ StrsOf(n_ns, Assigned(n_ns)) = << Str(<< "S", "e", "g", "a" >>), Str(<< "a", "t", "a", "r", "i" >>) >>

NotBlankSegment(r) == ~IsBlank(r.seg)

\* C8, as claimed: a segment that trims to empty computes no negative length
\* and gives no value; the entry gets the values of the other segments; a
\* field of spaces only gives no value.
C8_BlankSegmentsSkipped ==
  (Called /\ LastField # NullStr) =>
    /\ n_ns.fault # "negative_len"
    /\ ~IsCompanyCat =>
         AssignedAre(n_before, n_ns,
           ValuesFrom(n_cat, SelectSeq(Segments(n_cat, LastField), NotBlankSegment), 1, TRUE))
    /\ IsBlank(LastField) => n_ns.arena = n_before.arena /\ n_ns.e_by = 0

\* The filter of each value the entry was given lists the entry.
MatchesOwnValues(ns, cat) ==
  \A i \in 1..Len(Assigned(ns)) :
     SatisfiesFilter(ns.e_by, ns.split_buf, cat, Assigned(ns)[i],
                     explore_by_info[cat].use_split)

Built == ~explore_state.null /\ fault = "none"

\* The depth of the path below the explore top, and the type at position i.
PathDepth == Len(menu_stack) - 1 - explore_state.top_depth
TypeAt(i) == menu_stack[explore_state.top_depth + i + 1].type

\* The list is a filtered view: neither the explore top, nor the choice of an
\* additional filter, nor all the values of a first category, nor the page of
\* an entry.
InFilteredView ==
  /\ Built
  /\ PathDepth >= 0
  /\ TypeAt(PathDepth) \notin { MENU_EXPLORE_TAB, EXPLORE_TYPE_ADDITIONALFILTER }
  /\ ~(/\ PathDepth = 1
       /\ TypeAt(PathDepth) \notin { EXPLORE_TYPE_SEARCH, EXPLORE_TYPE_SHOWALL })
  /\ \/ IsCategoryType(TypeAt(IF PathDepth > 0 THEN PathDepth - 1 ELSE 0))
     \/ TypeAt(PathDepth) < EXPLORE_TYPE_FIRSTITEM

\* The view lists entries, or the values of the category the path ends in.
InEntryView    == InFilteredView /\ ~IsCategoryType(TypeAt(PathDepth))
InDistinctView == InFilteredView /\ IsCategoryType(TypeAt(PathDepth))
TargetCat      == TypeAt(PathDepth) - EXPLORE_TYPE_FIRSTCATEGORY

\* The constraints of the path: a category and the value selected in it, 0
\* for "unknown".
ConstraintAt(i) ==
  LET cat == TypeAt(i) - EXPLORE_TYPE_FIRSTCATEGORY
  IN  [cat   |-> cat,
       value |-> IF TypeAt(i + 1) = EXPLORE_TYPE_FILTERNULL THEN 0
                 ELSE explore_state.by[cat][TypeAt(i + 1) - EXPLORE_TYPE_FIRSTITEM + 1]]

PathConstraints ==
  { ConstraintAt(i) : i \in { j \in 1..(PathDepth - 1) : IsCategoryType(TypeAt(j)) } }

\* Entry e has value as a secondary value of category cat.
HasSecondary(e, cat, value) ==
  \E k \in 1..Len(e.split) : e.split[k] = << cat, value >>

\* Entry e satisfies constraint c.
EntrySatisfies(e, c) ==
  IF c.value = 0 THEN e.by[c.cat] = 0
  ELSE \/ e.by[c.cat] = c.value
       \/ explore_by_info[c.cat].use_split /\ HasSecondary(e, c.cat, c.value)

SatisfiesPath(e) == \A c \in PathConstraints : EntrySatisfies(e, c)

\* needle occurs in hay, letter case apart.
ContainsNoCase(hay, needle) ==
  \E i \in 0..(Len(hay) - Len(needle)) :
    \A j \in 1..Len(needle) : tolower(hay[i + j]) = tolower(needle[j])

ContainsExactly(hay, needle) ==
  \E i \in 0..(Len(hay) - Len(needle)) :
    \A j \in 1..Len(needle) : hay[i + j] = needle[j]

LabelOf(e) == EntryAt(world, e.playlist_entry).label

\* The free text, when one is active, occurs in the label of entry e.
TextMatches(e) ==
  explore_state.find_string # << >> =>
    ContainsNoCase(LabelOf(e), explore_state.find_string)

\* The positions in the entry array of the entries the view is to show, and
\* of those the items of the list stand for.
Passing ==
  { k \in 1..Len(explore_state.entries) :
      SatisfiesPath(explore_state.entries[k]) /\ TextMatches(explore_state.entries[k]) }

Listed ==
  { list[i].type - EXPLORE_TYPE_FIRSTITEM + 1 :
      i \in { j \in 1..Len(list) : list[j].type >= EXPLORE_TYPE_FIRSTITEM } }

\* C1: in the filtered view that lists entries, an entry is listed if and
\* only if it satisfies every constraint of the navigation path (its primary
\* value of the category is the selected one, or the category allows several
\* values and its secondary values hold the selected one; "unknown" is
\* satisfied by a null primary value only) and, when a free text is active,
\* its label holds the text.
C1_ListedIffSatisfiesAll ==
  InEntryView =>
    \A k \in 1..Len(explore_state.entries) :
      k \in Listed <=> /\ SatisfiesPath(explore_state.entries[k])
                       /\ TextMatches(explore_state.entries[k])

\* Two constraints; an entry is listed that satisfies one of them through a
\* secondary value only, and an entry is left out that satisfies one of the
\* two but not the other.
C1_Witness ==
  /\ InEntryView
  /\ Cardinality(PathConstraints) = 2
  /\ \E k \in Listed : \E c \in PathConstraints :
        /\ explore_state.entries[k].by[c.cat] # c.value
        /\ HasSecondary(explore_state.entries[k], c.cat, c.value)
  /\ \E k \in 1..Len(explore_state.entries) :
        /\ k \notin Listed
        /\ \E c \in PathConstraints : EntrySatisfies(explore_state.entries[k], c)
        /\ \E c \in PathConstraints : ~EntrySatisfies(explore_state.entries[k], c)

\* The primary values of the target category over the entries to show, and
\* the items of the list but a closing item "Unknown".
PassingPrimaries == { explore_state.entries[k].by[TargetCat] : k \in Passing }

EndsWithUnknown ==
  Len(list) > 0 /\ list[Len(list)].type = EXPLORE_TYPE_FILTERNULL

ValueItemsListed ==
  IF EndsWithUnknown THEN SubSeq(list, 1, Len(list) - 1) ELSE list

\* C2: in the view of the distinct values of a target category, the items
\* are the primary values of that category over the entries that satisfy the
\* constraints and the free text, each once and in the order of the
\* category's sorted array, and an item "Unknown" closes the list if and only
\* if one of these entries has no primary value.
C2_DistinctValuesInFacetOrder ==
  InDistinctView =>
    /\ EndsWithUnknown <=> 0 \in PassingPrimaries
    /\ Len(ValueItemsListed) = Cardinality(PassingPrimaries \ {0})
    /\ \A i \in 1..Len(ValueItemsListed) :
         LET pos == ValueItemsListed[i].type - EXPLORE_TYPE_FIRSTITEM + 1
         IN  /\ pos >= 1 /\ pos <= Len(explore_state.by[TargetCat])
             /\ explore_state.by[TargetCat][pos] \in PassingPrimaries
             /\ ValueItemsListed[i].path =
                  Val(explore_state.values[TargetCat][explore_state.by[TargetCat][pos]].str)
             /\ i > 1 => ValueItemsListed[i - 1].type < ValueItemsListed[i].type

\* Under a constraint, two of the entries to show have the same primary
\* value and a third has none.
C2_Witness ==
  /\ InDistinctView
  /\ PathConstraints # {}
  /\ EndsWithUnknown
  /\ Len(ValueItemsListed) >= 1
  /\ \E j, k \in Passing :
        /\ j # k
        /\ explore_state.entries[j].by[TargetCat] # 0
        /\ explore_state.entries[j].by[TargetCat] = explore_state.entries[k].by[TargetCat]

\* What the item of the entry at position k of the entry array shows.
TitleOf(e) == IF e.original_title # NullStr THEN e.original_title ELSE LabelOf(e)

\* C3: in the view that lists entries, the items after the first one stand
\* for the entries that satisfy the constraints and whose label holds the
\* free text, letter case apart, when one is active: each once, in the order
\* of the entry array, showing the original title when there is one and the
\* label otherwise, and of the type that gives the position in the array.
C3_EntriesOnceInArrayOrder ==
  InEntryView =>
    /\ Len(list) = 1 + Cardinality(Passing)
    /\ list[1].type < EXPLORE_TYPE_FIRSTITEM
    /\ \A i \in 2..Len(list) :
         LET k == list[i].type - EXPLORE_TYPE_FIRSTITEM + 1
         IN  /\ k \in Passing
             /\ list[i].path = Val(TitleOf(explore_state.entries[k]))
             /\ i > 2 => list[i - 1].type < list[i].type

\* A free text is active that the labels of two listed entries hold in
\* another letter case only; one of the two has an original title, and an
\* entry that satisfies the constraints is left out for its label.
C3_Witness ==
  /\ InEntryView
  /\ explore_state.find_string # << >>
  /\ Cardinality(Listed) >= 2
  /\ \E k \in Listed :
        /\ explore_state.entries[k].original_title # NullStr
        /\ explore_state.entries[k].original_title # LabelOf(explore_state.entries[k])
        /\ ~ContainsExactly(LabelOf(explore_state.entries[k]), explore_state.find_string)
  /\ \E k \in 1..Len(explore_state.entries) :
        /\ SatisfiesPath(explore_state.entries[k])
        /\ k \notin Listed

\* The field of category cat that the build read for entry e is absent or
\* empty.
FieldAbsent(e, cat) ==
  e.record.fields[cat] = NullStr \/ e.record.fields[cat] = << >>

\* C10: an entry whose field of a category is empty or absent has no primary
\* value of that category, the category's has_unknown flag is set, and the
\* entry is listed when the path constrains the category to "unknown".
C10_AbsentFieldIsUnknown ==
  Built =>
    \A k \in 1..Len(explore_state.entries) : \A cat \in Cats :
      FieldAbsent(explore_state.entries[k], cat) =>
        /\ explore_state.entries[k].by[cat] = 0
        /\ explore_state.has_unknown[cat]
        /\ ( /\ InEntryView
             /\ [cat |-> cat, value |-> 0] \in PathConstraints
             /\ \A c \in PathConstraints \ { [cat |-> cat, value |-> 0] } :
                  EntrySatisfies(explore_state.entries[k], c)
             /\ TextMatches(explore_state.entries[k]) )
           => k \in Listed

(***************************************************************************)
(* What the build is to leave, stated on the playlists and the databases.  *)
(***************************************************************************)

\* Entry j of file d is one the scan registers: its checksum, its database
\* name and its label are there.
Qualifies(d, j) ==
  LET entry == world.playlist_dir[d].entries[j]
  IN  /\ ~string_is_empty(entry.crc32)
      /\ ~string_is_empty(entry.db_name)
      /\ ~string_is_empty(entry.label)

\* The entries of the playlist files, as << file, position >>, and those of
\* them the scan has gone through, in the order of the scan.
PlaylistSlots ==
  UNION { { << d, j >> : j \in 1..Len(world.playlist_dir[d].entries) } :
            d \in { f \in 1..Len(world.playlist_dir) :
                      IsPlaylistFile(world.playlist_dir[f].fname) } }

Before(s, t) == s[1] < t[1] \/ (s[1] = t[1] /\ s[2] < t[2])

Scanned ==
  { s \in PlaylistSlots : Qualifies(s[1], s[2]) /\ Before(s, << b_pc.d, b_pc.j >>) }

TagOf(s) == world.playlist_dir[s[1]].entries[s[2]].db_name
KeyOf(s) == strtoul16(world.playlist_dir[s[1]].entries[s[2]].crc32)

\* The calls of libretrodb_open that opened a database; the k-th of them
\* made handle k.
OkOpens == SelectSeq(b_scan.opens, LAMBDA o : o.ok)

TagsOpened == { b_scan.opens[a].db_name : a \in { x \in DOMAIN b_scan.opens : b_scan.opens[x].ok } }
TagsFailed == { b_scan.opens[a].db_name : a \in { x \in DOMAIN b_scan.opens : ~b_scan.opens[x].ok } }

\* The entries registered in the map of handle k.
RegisteredIn(k) ==
  { s \in Scanned :
      ex_hashmap32_getnum(b_scan.rdbs[k].playlist_entries, KeyOf(s)) = EntryPtr(s[1], s[2]) }

\* C11: during a build each database name is opened at most once, by the
\* first entry that names it; a name whose database cannot be opened is marked
\* and no entry with it is registered anywhere, while the entries of the
\* other names go on being registered; every entry of a name whose database
\* was opened is registered in the map of the one handle of that name.
C11_EachTagOpenedOnce ==
  /\ \A a, b \in DOMAIN b_scan.opens :
        b_scan.opens[a].db_name = b_scan.opens[b].db_name => a = b
  /\ TagsOpened \cup TagsFailed = { TagOf(s) : s \in Scanned }
  /\ \A a \in DOMAIN b_scan.opens :
        b_scan.opens[a].ok = CanOpen(world, RdbPath(b_scan.opens[a].db_name))
  /\ Len(b_scan.rdbs) = Len(OkOpens)
  /\ \A s \in Scanned :
        IF TagOf(s) \in TagsFailed
        THEN /\ ex_hashmap32_strgetnum(b_scan.rdb_indices, TagOf(s)) = -1
             /\ \A k \in 1..Len(b_scan.rdbs) : s \notin RegisteredIn(k)
        ELSE \E k \in 1..Len(b_scan.rdbs) :
               /\ OkOpens[k].db_name = TagOf(s)
               /\ ex_hashmap32_strgetnum(b_scan.rdb_indices, TagOf(s)) = k
               /\ \A h \in 1..Len(b_scan.rdbs) : h # k => s \notin RegisteredIn(h)
               /\ \/ KeyOf(s) = U32Zero
                  \/ \E t \in Scanned :
                       /\ TagOf(t) = TagOf(s) /\ KeyOf(t) = KeyOf(s)
                       /\ ~Before(t, s)
                       /\ t \in RegisteredIn(k)

\* The scan is over.  A database could not be opened, and entries of two
\* playlists name it; entries of two playlists name a database that was
\* opened, the second of them comes after the open that failed, and it is
\* registered in the map of the handle.
C11_Witness ==
  /\ b_pc.at \in { "cores", "records", "done" }
  /\ \E s, t \in Scanned :
        /\ TagOf(s) \in TagsFailed /\ TagOf(t) = TagOf(s) /\ s[1] < t[1]
        /\ \E k \in 1..Len(b_scan.rdbs) : \E u \in Scanned : \E v \in RegisteredIn(k) :
              /\ TagOf(u) = TagOf(v) /\ u[1] < v[1] /\ Before(s, v)

\* The fields of a record under the key "crc", and whether each of them is
\* of the type the build reads it as.
CrcFields(item) ==
  SelectSeq(item.val, LAMBDA kv : kv.key.type = "RDT_STRING" /\ kv.key.val = "crc")

HasCrc(item) == CrcFields(item) # << >>

WellTypedCrc(item) ==
  \A a \in DOMAIN CrcFields(item) :
     /\ CrcFields(item)[a].value.type = "RDT_BINARY"
     /\ Len(CrcFields(item)[a].value.val) >= 4

\* The checksum of a record, most significant byte first, as the pair of
\* its halves.
CrcOf(item) ==
  LET b == CrcFields(item)[Len(CrcFields(item))].value.val
  IN  << b[1] * 256 + b[2], b[3] * 256 + b[4] >>

\* The records of the databases opened, as << handle, position >>: the maps
\* among the items, but those whose checksum is of another type (their
\* checksum is whatever the read comes upon).
Records ==
  { r \in UNION { { << h, i >> : i \in 1..Len(RdbItems(world, RdbPath(OkOpens[h].db_name))) } :
                    h \in 1..Len(OkOpens) } :
      /\ RdbItems(world, RdbPath(OkOpens[r[1]].db_name))[r[2]].type = "RDT_MAP"
      /\ WellTypedCrc(RdbItems(world, RdbPath(OkOpens[r[1]].db_name))[r[2]]) }

ItemAt(r) == RdbItems(world, RdbPath(OkOpens[r[1]].db_name))[r[2]]

\* The entries of the playlists registered under the checksum of record r in
\* the map of r's database: those that name the database and whose checksum
\* reads as the record's, which is not 0, the key no map holds.
MatchesOf(r) ==
  IF ~HasCrc(ItemAt(r)) \/ CrcOf(ItemAt(r)) = U32Zero THEN {}
  ELSE { s \in Scanned : TagOf(s) = OkOpens[r[1]].db_name /\ KeyOf(s) = CrcOf(ItemAt(r)) }

\* The one of them the map holds: the last that was registered.
RegisteredFor(r) ==
  CHOOSE s \in MatchesOf(r) : \A t \in MatchesOf(r) : ~Before(s, t)

Matched == { r \in Records : MatchesOf(r) # {} }

\* The entries of the index made from records whose checksum is of its type.
EntriesOfRecords ==
  { k \in 1..Len(b_idx.entries) : WellTypedCrc(b_idx.entries[k].record.item) }

SlotOf(ptr) == << PlaylistOf(ptr), IndexOf(ptr) >>

\* C12: after a build the entries are, one for one, the records of the
\* databases opened whose checksum is registered in the map of their
\* database, each with the playlist entry registered under the checksum;
\* records without a checksum or with one that is not registered have no
\* entry, and an entry never refers to a playlist entry without a checksum,
\* a database name or a label.
C12_EntriesAreMatchedRecords ==
  b_pc.at = "done" =>
    /\ Cardinality(EntriesOfRecords) = Cardinality(Matched)
    /\ \A x \in { << ItemAt(r), RegisteredFor(r) >> : r \in Matched }
             \cup { << b_idx.entries[k].record.item,
                       SlotOf(b_idx.entries[k].playlist_entry) >> : k \in EntriesOfRecords } :
          Cardinality({ r \in Matched : << ItemAt(r), RegisteredFor(r) >> = x })
            = Cardinality({ k \in EntriesOfRecords :
                              << b_idx.entries[k].record.item,
                                 SlotOf(b_idx.entries[k].playlist_entry) >> = x })
    /\ \A k \in 1..Len(b_idx.entries) :
          /\ SlotOf(b_idx.entries[k].playlist_entry) \in Scanned
          /\ PlaylistOf(b_idx.entries[k].playlist_entry) \in
               { b_scan.playlists[a] : a \in DOMAIN b_scan.playlists }

\* A build is over that made four entries or more; a database could not be
\* opened, a playlist entry has no checksum, a record has none, and a record
\* has one that no playlist entry of its database has.
C12_Witness ==
  /\ b_pc.at = "done"
  /\ Len(b_idx.entries) >= 4
  /\ TagsFailed # {}
  /\ \E s \in PlaylistSlots : ~Qualifies(s[1], s[2])
  /\ \E r \in Records : ~HasCrc(ItemAt(r))
  /\ \E r \in Records : HasCrc(ItemAt(r)) /\ MatchesOf(r) = {}

\* The index es is complete: the array of every category holds every value
\* of the category, in the order of the comparison function, each value
\* numbered with its position, and the entries are in the order of their
\* labels and point to values of the arrays.
CompleteIndex(es) ==
  /\ \A c \in Cats :
       /\ Len(es.by[c]) = Len(es.values[c])
       /\ \A i \in 1..Len(es.by[c]) : es.values[c][es.by[c][i]].idx = i - 1
       /\ \A i \in 1..(Len(es.by[c]) - 1) :
            explore_qsort_func_strings(es.values[c][es.by[c][i]].str,
                                       es.values[c][es.by[c][i + 1]].str) <= 0
  /\ \A k \in 1..(Len(es.entries) - 1) :
       explore_qsort_func_strings(
         EntryAt(world, es.entries[k].playlist_entry).label,
         EntryAt(world, es.entries[k + 1].playlist_entry).label) <= 0
  /\ \A k \in 1..Len(es.entries) : \A c \in Cats :
       es.entries[k].by[c] \in 0..Len(es.values[c])

\* The arrays of the categories with their values, the has_unknown flags and
\* the entries.
IndexParts(es) == << es.by, es.values, es.has_unknown, es.entries >>

\* C13: over the calls of menu_displaylist_explore and menu_explore_free, a
\* build runs exactly in a call that finds no index, when the state before
\* it has been released; the index a call leaves is complete (sorted and
\* numbered); and a call that finds an index leaves its arrays, its flags
\* and its entries as they were.
C13_QueriesSeeCompleteIndex ==
  [][ /\ builds' \in { builds, builds + 1 }
      /\ builds' = builds + 1 =>
           /\ explore_state.null
           /\ fault' = "none" =>
                /\ ~explore_state'.null
                /\ \A k \in 1..Len(explore_state'.playlists) :
                     explore_state'.playlists[k][1] = builds'
      /\ (explore_state.null /\ ~explore_state'.null) => builds' = builds + 1
      /\ (explore_state.null /\ builds' = builds) =>
           list' = list /\ menu_stack' = menu_stack
      /\ ~explore_state'.null => CompleteIndex(explore_state')
      /\ (~explore_state.null /\ ~explore_state'.null) =>
           /\ builds' = builds
           /\ IndexParts(explore_state') = IndexParts(explore_state)
    ]_vars

\* The index was released and built again, and calls that found the second
\* index have since left a list of entries two levels below the top.
C13_Witness ==
  /\ builds = 2
  /\ InEntryView
  /\ PathDepth >= 2
  /\ Len(explore_state.entries) >= 2

\* The fields of a record under a key.
FieldsUnder(item, key) ==
  SelectSeq(item.val, LAMBDA kv : kv.key.type = "RDT_STRING" /\ kv.key.val = key)

\* The types of the values that a category is made from.
TypesOf(cat) ==
  IF explore_by_info[cat].is_numeric THEN { "RDT_INT", "RDT_UINT" } ELSE { "RDT_STRING" }

\* Every field of the record under the key has a value of another type than
\* those of types, and there is such a field.
WrongTyped(item, key, types) ==
  /\ FieldsUnder(item, key) # << >>
  /\ \A a \in DOMAIN FieldsUnder(item, key) :
        FieldsUnder(item, key)[a].value.type \notin types

\* C14: a field of a record that is there under the key of a category, of
\* "crc" or of "original_title", with a value of another type than the one
\* it is read as, is as good as absent: the entry has no field and no primary
\* value of the category (for System, when the core names no system either),
\* it has no original title, a record whose checksum is of another type has
\* no entry, and no read of such a value is a memory error.
C14_WrongTypeIsAbsent ==
  /\ b_idx.fault \notin { "crc_read", "original_title_read" }
  /\ \A k \in 1..Len(b_idx.entries) :
       LET e == b_idx.entries[k]
       IN  /\ ~WrongTyped(e.record.item, "crc", { "RDT_BINARY" })
           /\ WrongTyped(e.record.item, "original_title", { "RDT_STRING" })
                => e.original_title = NullStr
           /\ \A c \in Cats :
                WrongTyped(e.record.item, explore_by_info[c].rdbkey, TypesOf(c)) =>
                  /\ e.record.fields[c] = NullStr
                  /\ (c # EXPLORE_BY_SYSTEM \/ e.record.systemname = NullStr)
                       => e.by[c] = 0

\* The value that pointer ptr of category c points to, and the pointer at
\* the position of the array that the value's idx names.
ValueAt(c, ptr) == b_idx.cats[c].arena[ptr]
AtIdxOf(c, ptr) == b_idx.cats[c].by[ValueAt(c, ptr).idx + 1]

\* C15: after a build the value at position i of a category's array has the
\* idx i; the primary value v of an entry in category c is the one at
\* position v.idx of the array of c, and a secondary value belongs to a
\* category of several values and is the one at position idx of that
\* category's array.  Before the sort no idx is assigned, so that there is
\* none to read.
C15_IdxIsPosition ==
  IF b_pc.at = "done"
  THEN /\ \A c \in Cats : \A i \in 1..Len(b_idx.cats[c].by) :
            ValueAt(c, b_idx.cats[c].by[i]).idx = i - 1
       /\ \A k \in 1..Len(b_idx.entries) :
            /\ \A c \in Cats :
                 b_idx.entries[k].by[c] # 0 =>
                   /\ b_idx.entries[k].by[c] \in 1..Len(b_idx.cats[c].arena)
                   /\ AtIdxOf(c, b_idx.entries[k].by[c]) = b_idx.entries[k].by[c]
            /\ \A a \in 1..Len(b_idx.entries[k].split) :
                 LET c   == b_idx.entries[k].split[a][1]
                     ptr == b_idx.entries[k].split[a][2]
                 IN  /\ c \in Cats
                     /\ explore_by_info[c].use_split
                     /\ ptr \in 1..Len(b_idx.cats[c].arena)
                     /\ AtIdxOf(c, ptr) = ptr
  ELSE \A c \in Cats : \A ptr \in 1..Len(b_idx.cats[c].arena) :
          ValueAt(c, ptr).idx = Uninit

\* A build is over in which the sort moved the values of a category of
\* three values, an entry has a primary value that the sort moved, and an
\* entry has a secondary value.
C15_Witness ==
  /\ b_pc.at = "done"
  /\ \E c \in Cats :
        /\ Len(b_idx.cats[c].by) >= 3
        /\ \E k \in 1..Len(b_idx.entries) :
              /\ b_idx.entries[k].by[c] # 0
              /\ ValueAt(c, b_idx.entries[k].by[c]).idx + 1 # b_idx.entries[k].by[c]
  /\ \E k \in 1..Len(b_idx.entries) : b_idx.entries[k].split # << >>

\* C17: after a build the has_unknown flag of a category, System among
\* them, is set if and only if an entry has no primary value of the
\* category, so that the item "Unknown" of the category's values stands for
\* an entry at least.
C17_UnknownIffNullPrimary ==
  b_pc.at = "done" =>
    \A c \in Cats :
       b_idx.cats[c].has_unknown <=>
         \E k \in 1..Len(b_idx.entries) : b_idx.entries[k].by[c] = 0

\* C18: during a build the normalizer gives an entry one value at most in a
\* category of single values, System among them, which is normalized from
\* the record's field and then from the system name of the core; it appends
\* no secondary value of such a category, and so never pushes onto the
\* scratch buffer that is NULL for these categories.
C18_NoSecondaryWithoutSplit ==
  /\ b_idx.fault # "null_split_buf"
  /\ \A c \in Cats : b_idx.cats[c].fault # "null_split_buf"
  /\ \A k \in 1..Len(b_idx.entries) : \A a \in 1..Len(b_idx.entries[k].split) :
        explore_by_info[b_idx.entries[k].split[a][1]].use_split

\* The playlists the index retains.
Retained == { explore_state.playlists[k] : k \in 1..Len(explore_state.playlists) }

\* C19: while there is an index, the playlist entry of every entry lies in
\* a playlist the index retains, and no playlist it retains has been
\* released, whatever calls of menu_displaylist_explore came before, the
\* page of an entry and then the explore top among them; no playlist is
\* released twice.
C19_RetainedNeverReleased ==
  /\ fault # "playlist_double_free"
  /\ ~explore_state.null =>
       /\ \A k \in 1..Len(explore_state.entries) :
            \E pl \in Retained :
               pl[2] = PlaylistOf(explore_state.entries[k].playlist_entry)
       /\ Retained \cap playlists_freed = {}

\* C20: in a category that allows several values, every value the
\* normalizer has made is not empty, neither begins nor ends with a space,
\* and holds none of the delimiters '/', ',' and '|', whatever the field it
\* was made from, one that begins with a delimiter or holds two in a row
\* among them.
C20_ValuesHoldNoDelimiter ==
  explore_by_info[n_cat].use_split =>
    \A ptr \in 1..Len(n_ns.arena) :
       LET str == n_ns.arena[ptr].str
       IN  /\ Len(str) > 0
           /\ str[1] # Ord(" ")
           /\ str[Len(str)] # Ord(" ")
           /\ \A i \in 1..Len(str) : str[i] \notin Delimiters

=============================================================================
